---------------------------- MODULE Spec2Model ----------------------------
(***************************************************************************)
(* structpath: parsing url paths into records and generating url paths     *)
(* from records, driven by a Schema (src/src/lib.rs).                      *)
(*                                                                         *)
(* Text is modelled as a sequence of one-character strings, so that        *)
(* splitting on "/", comparing, parsing and rendering are computed on the  *)
(* characters as the code computes them.  Integers are decimal digit       *)
(* sequences with a sign, so that every width up to 128 bits keeps its     *)
(* exact range.                                                            *)
(***************************************************************************)
EXTENDS Integers, Sequences, FiniteSets, TLC

(***************************************************************************)
(* Text helpers                                                            *)
(***************************************************************************)
Digits == {"0", "1", "2", "3", "4", "5", "6", "7", "8", "9"}

DigitVal == [c \in Digits |->
    CASE c = "0" -> 0 [] c = "1" -> 1 [] c = "2" -> 2 [] c = "3" -> 3
      [] c = "4" -> 4 [] c = "5" -> 5 [] c = "6" -> 6 [] c = "7" -> 7
      [] c = "8" -> 8 [] c = "9" -> 9]

DigitChar == <<"0", "1", "2", "3", "4", "5", "6", "7", "8", "9">>

AllDigits(s) == \A i \in 1..Len(s) : s[i] \in Digits

\* The least and the greatest element of a non-empty set of integers.
Least(S) == CHOOSE i \in S : \A j \in S : i <= j
Greatest(S) == CHOOSE i \in S : \A j \in S : j <= i

\* The positions of s that do not hold a "0".
NonZeroAt(s) == {i \in 1..Len(s) : s[i] # "0"}

\* s without its leading zeros, keeping one digit of an all-zero text.
StripLeadingZeros(s) ==
    IF Len(s) <= 1 THEN s
    ELSE IF NonZeroAt(s) = {} THEN <<"0">>
    ELSE SubSeq(s, Least(NonZeroAt(s)), Len(s))

StripAllLeadingZeros(s) ==
    IF NonZeroAt(s) = {} THEN <<>> ELSE SubSeq(s, Least(NonZeroAt(s)), Len(s))

StripTrailingZeros(s) ==
    IF NonZeroAt(s) = {} THEN <<>> ELSE SubSeq(s, 1, Greatest(NonZeroAt(s)))

Zeros(n) == [i \in 1..n |-> "0"]

\* Position of the first occurrence of character c in s, or 0.
IndexOf(s, c, i) ==
    LET at == {j \in i..Len(s) : s[j] = c}
    IN  IF at = {} THEN 0 ELSE Least(at)

\* str::split("/"): the pieces between the separators, in order; a text
\* without separator is one piece, the empty text is one empty piece.
RECURSIVE Split(_)
Split(s) ==
    LET i == IndexOf(s, "/", 1)
    IN  IF i = 0 THEN <<s>>
        ELSE <<SubSeq(s, 1, i - 1)>> \o Split(SubSeq(s, i + 1, Len(s)))

\* The split that drops the first token only when it is empty.
PathSegmentsFromFirst(p) == IF Head(Split(p)) = <<>> THEN Tail(Split(p)) ELSE Split(p)

\* path.split("/").skip(1)
PathSegments(p) == Tail(Split(p))

(***************************************************************************)
(* Unbounded naturals as digit sequences (most significant digit first,    *)
(* no leading zero except for zero itself).                                *)
(***************************************************************************)
\* ds + ds
\* Doubling a digit carries 1 exactly when the digit is at least 5.
DoubleCarry(ds, i) == IF i <= Len(ds) /\ DigitVal[ds[i]] >= 5 THEN 1 ELSE 0

Double(ds) ==
    LET low == [i \in 1..Len(ds) |->
                  DigitChar[((2 * DigitVal[ds[i]] + DoubleCarry(ds, i + 1)) % 10) + 1]]
    IN  IF DoubleCarry(ds, 1) = 1 THEN <<"1">> \o low ELSE low

\* ds - 1, for ds > 0
Pred(ds) ==
    LET k == Greatest(NonZeroAt(ds))
    IN  StripLeadingZeros([i \in 1..Len(ds) |->
            IF i < k THEN ds[i]
            ELSE IF i = k THEN DigitChar[DigitVal[ds[i]]] ELSE "9"])

RECURSIVE DoubleTimes(_, _)
DoubleTimes(ds, w) == IF Len(ds) > 0 /\ w = 0 THEN ds ELSE DoubleTimes(Double(ds), w - 1)

Pow2(w) == DoubleTimes(<<"1">>, w)

\* a <= b on normalised digit sequences
LexLeq(a, b, i) ==
    LET differ == {j \in i..Len(a) : a[j] # b[j]}
    IN  differ = {} \/ DigitVal[a[Least(differ)]] < DigitVal[b[Least(differ)]]

MagLeq(a, b) ==
    \/ Len(a) < Len(b)
    \/ Len(a) = Len(b) /\ LexLeq(a, b, 1)

(***************************************************************************)
(* Scalar Value Model: SegmentType and SegmentValue                        *)
(***************************************************************************)
SignedTypes   == {"I8", "I16", "I32", "I64", "I128"}
UnsignedTypes == {"U8", "U16", "U32", "U64", "U128"}
IntTypes      == SignedTypes \cup UnsignedTypes
FloatTypes    == {"F32", "F64"}
SegmentType   == FloatTypes \cup IntTypes \cup {"String"}

\* The width in bits of each integer type.
Bits == [T \in IntTypes |->
    CASE T \in {"I8", "U8"}     -> 8
      [] T \in {"I16", "U16"}   -> 16
      [] T \in {"I32", "U32"}   -> 32
      [] T \in {"I64", "U64"}   -> 64
      [] T \in {"I128", "U128"} -> 128]

\* T::MAX, and the magnitude of T::MIN, as digit sequences.
IntMax == [T \in IntTypes |->
    IF T \in SignedTypes THEN Pred(Pow2(Bits[T] - 1)) ELSE Pred(Pow2(Bits[T]))]

IntMinMag == [T \in IntTypes |->
    IF T \in SignedTypes THEN Pow2(Bits[T] - 1) ELSE <<"0">>]

\* Every datum is a record of one shape, [kind, neg, digs, e10], so that two
\* scalars of different types can be compared.
\* An integer datum: sign and magnitude (digs); zero is never negative.
IntDatum(neg, mag) ==
    [kind |-> "int", neg |-> neg /\ mag # <<"0">>, digs |-> mag, e10 |-> 0]

\* A text datum: digs holds the characters.
TextDatum(s) == [kind |-> "text", neg |-> FALSE, digs |-> s, e10 |-> 0]

\* A float datum.  kind "fin": the value is (digs read as a natural) * 10^e10,
\* digs without leading or trailing zeros (empty for zero); the sign is
\* kept for zero too.  kind "inf" / "nan": the infinities and not-a-number.
\* Both widths read and print every decimal text of at most six significant
\* digits exactly (shortest round-trippable form), which is the range of
\* texts the model draws; the datum is therefore kept in decimal.
FloatFin(neg, digs, e10) == [kind |-> "fin", neg |-> neg, digs |-> digs, e10 |-> e10]
FloatInf(neg) == [kind |-> "inf", neg |-> neg, digs |-> <<>>, e10 |-> 0]
FloatNaN      == [kind |-> "nan", neg |-> FALSE, digs |-> <<>>, e10 |-> 0]

SegmentValue(T, v) == [tag |-> T, v |-> v]

Ok(x)        == [ok |-> TRUE, value |-> x, err |-> "", got |-> <<>>, expected |-> <<>>]
Err(kind)    == [ok |-> FALSE, value |-> <<>>, err |-> kind, got |-> <<>>, expected |-> <<>>]
ErrText(kind, got, expected) ==
    [ok |-> FALSE, value |-> <<>>, err |-> kind, got |-> got, expected |-> expected]

\* from_str without the check of the range.
ParseIntAnyMagnitude(s, T) ==
    IF s = <<>> THEN Err("ParseIntError")
    ELSE IF Len(s) = 1 /\ Head(s) \in {"+", "-"} THEN Err("ParseIntError")
    ELSE LET neg    == Head(s) = "-" /\ T \in SignedTypes
             digits == IF Head(s) = "+" \/ neg THEN Tail(s) ELSE s
             mag    == StripLeadingZeros(digits)
         IN  IF ~AllDigits(digits) THEN Err("ParseIntError")
             ELSE Ok(SegmentValue(T, IntDatum(neg, mag)))

\* <integer type>::from_str, as called by segment.parse(): an optional "+",
\* or "-" for a signed type, then one or more decimal digits; the value
\* must lie in the type's range.
ParseInt(s, T) ==
    IF s = <<>> THEN Err("ParseIntError")
    ELSE IF Len(s) = 1 /\ Head(s) \in {"+", "-"} THEN Err("ParseIntError")
    ELSE LET neg    == Head(s) = "-" /\ T \in SignedTypes
             digits == IF Head(s) = "+" \/ neg THEN Tail(s) ELSE s
             mag    == StripLeadingZeros(digits)
         IN  IF ~AllDigits(digits) THEN Err("ParseIntError")
             ELSE IF neg /\ ~MagLeq(mag, IntMinMag[T]) THEN Err("ParseIntError")
             ELSE IF ~neg /\ ~MagLeq(mag, IntMax[T]) THEN Err("ParseIntError")
             ELSE Ok(SegmentValue(T, IntDatum(neg, mag)))

Lower(c) ==
    CASE c = "N" -> "n" [] c = "A" -> "a" [] c = "I" -> "i" [] c = "F" -> "f"
      [] c = "E" -> "e" [] c = "T" -> "t" [] c = "Y" -> "y" [] OTHER -> c

LowerText(s) == [i \in 1..Len(s) |-> Lower(s[i])]

RECURSIVE NatOf(_)
NatOf(ds) ==
    IF ds = <<>> THEN 0 ELSE 10 * NatOf(SubSeq(ds, 1, Len(ds) - 1)) + DigitVal[ds[Len(ds)]]

\* <float type>::from_str, as called by segment.parse(): an optional sign,
\* then digits with an optional "." and an optional exponent, or one of the
\* words inf, infinity, nan in any letter case.
ParseFloat(s, T) ==
    IF s = <<>> THEN Err("ParseFloatError")
    ELSE
    LET neg  == Head(s) = "-"
        body == IF Head(s) \in {"+", "-"} THEN Tail(s) ELSE s
        low  == LowerText(body)
        ePos == IndexOf(low, "e", 1)
        mant == IF ePos = 0 THEN body ELSE SubSeq(body, 1, ePos - 1)
        expo == IF ePos = 0 THEN <<>> ELSE SubSeq(body, ePos + 1, Len(body))
        dot  == IndexOf(mant, ".", 1)
        ip   == IF dot = 0 THEN mant ELSE SubSeq(mant, 1, dot - 1)
        fp   == IF dot = 0 THEN <<>> ELSE SubSeq(mant, dot + 1, Len(mant))
        eNeg == expo # <<>> /\ Head(expo) = "-"
        eDig == IF expo # <<>> /\ Head(expo) \in {"+", "-"} THEN Tail(expo) ELSE expo
        mantOk == AllDigits(ip) /\ AllDigits(fp) /\ Len(ip) + Len(fp) > 0
        expOk  == ePos = 0 \/ (eDig # <<>> /\ AllDigits(eDig))
        eVal   == IF ePos = 0 THEN 0 ELSE IF eNeg THEN 0 - NatOf(eDig) ELSE NatOf(eDig)
        all    == StripAllLeadingZeros(ip \o fp)
        digs   == StripTrailingZeros(all)
        e10    == IF digs = <<>> THEN 0 ELSE eVal - Len(fp) + (Len(all) - Len(digs))
    IN  IF body = <<>> THEN Err("ParseFloatError")
        ELSE IF mantOk /\ expOk THEN Ok(SegmentValue(T, FloatFin(neg, digs, e10)))
        ELSE IF low = <<"n", "a", "n">> THEN Ok(SegmentValue(T, FloatNaN))
        ELSE IF low \in {<<"i", "n", "f">>, <<"i", "n", "f", "i", "n", "i", "t", "y">>}
             THEN Ok(SegmentValue(T, FloatInf(neg)))
        ELSE Err("ParseFloatError")

\* to_string of the magnitude only.
RenderIntMagnitude(d) == d.digs

\* <integer>::to_string
RenderInt(d) == IF d.neg THEN <<"-">> \o d.digs ELSE d.digs

\* <float>::to_string: plain decimal notation, never an exponent.
RenderFloat(f) ==
    IF f.kind = "nan" THEN <<"N", "a", "N">>
    ELSE LET sign == IF f.neg THEN <<"-">> ELSE <<>>
             n    == Len(f.digs)
         IN  IF f.kind = "inf" THEN sign \o <<"i", "n", "f">>
             ELSE IF n = 0 THEN sign \o <<"0">>
             ELSE IF f.e10 >= 0 THEN sign \o f.digs \o Zeros(f.e10)
             ELSE IF n > 0 - f.e10
                  THEN sign \o SubSeq(f.digs, 1, n + f.e10) \o <<".">>
                            \o SubSeq(f.digs, n + f.e10 + 1, n)
             ELSE sign \o <<"0", ".">> \o Zeros(0 - f.e10 - n) \o f.digs

\* The text a scalar of each kind is rendered to (v.to_string(), v.to_owned()).
Render(val) ==
    IF val.tag \in IntTypes THEN RenderInt(val.v)
    ELSE IF val.tag \in FloatTypes THEN RenderFloat(val.v)
    ELSE val.v.digs

\* The parse of one value segment according to the declared type.
ParseSegment(s, T) ==
    IF T \in IntTypes THEN ParseInt(s, T)
    ELSE IF T \in FloatTypes THEN ParseFloat(s, T)
    ELSE Ok(SegmentValue("String", TextDatum(s)))

\* PartialEq of two scalars of one type: a float NaN equals nothing, the
\* two float zeros are equal.
ScalarEq(a, b) ==
    /\ a.tag = b.tag
    /\ IF a.tag \in FloatTypes
       THEN /\ a.v.kind # "nan" /\ b.v.kind # "nan"
            /\ \/ a.v = b.v
               \/ a.v.kind = "fin" /\ b.v.kind = "fin" /\ a.v.digs = <<>> /\ b.v.digs = <<>>
       ELSE a.v = b.v

(***************************************************************************)
(* Schema Model                                                            *)
(***************************************************************************)
\* SegmentSchema::Literal(literal) and SegmentSchema::Value(SegmentValueSchema
\* {name, segment_type}); one record shape for both.
Literal(l)  == [kind |-> "Literal", literal |-> l, name |-> <<>>, segment_type |-> "String"]
Value(n, T) == [kind |-> "Value", literal |-> <<>>, name |-> n, segment_type |-> T]

\* HashMap: a function from keys to values.
EmptyMap == [k \in {} |-> 0]
insert(m, k, v) == [n \in (DOMAIN m) \cup {k} |-> IF n = k THEN v ELSE m[n]]

\* remove that leaves the entry in the map.
remove_none(m, k) == m

remove(m, k) == [n \in (DOMAIN m) \ {k} |-> m[n]]

Min(a, b) == IF a <= b THEN a ELSE b

(***************************************************************************)
(* Schema::new, Schema::literal, Schema::value and Schema::path.  A Schema *)
(* is the sequence of its segments.                                        *)
(***************************************************************************)
Schema_new == <<>>
Schema_literal(self, segment_literal) == Append(self, Literal(segment_literal))
Schema_value(self, name, segment_type) == Append(self, Value(name, segment_type))

\* PathSchemaParseError
SyntaxError(segment, message) == ErrText("SyntaxError", segment, message)
UnrecognizedType(tag) == ErrText("UnrecognizedType", tag, <<>>)

\* A panic: the call unwinds and returns nothing to its caller.
Panic == Err("Panic")

\* The bytes a character takes in UTF-8.  The characters of the model are
\* ASCII but for one letter of two bytes.
Utf8Len(c) == IF c = "é" THEN 2 ELSE 1

\* &segment[0..1]: the str of the first byte.  The slice panics when the
\* segment has no byte, or when byte 1 is not a character boundary.
FirstByte(segment) ==
    IF segment = <<>> THEN Panic
    ELSE IF Utf8Len(segment[1]) > 1 THEN Panic
    ELSE Ok(<<segment[1]>>)

\* The brackets' content taken up to the last character but one.
NoBracketsToLast(segment) ==
    IF Len(segment) <= 2 THEN <<>> ELSE SubSeq(segment, 2, Len(segment) - 1)

\* segment.chars().skip(1).take_while(|c| c != &'>').collect()
NoBrackets(segment) ==
    LET rest == Tail(segment)
        i    == IndexOf(rest, ">", 1)
    IN  IF i = 0 THEN rest ELSE SubSeq(rest, 1, i - 1)

\* splitn(2, sep): split at the first separator only.
SplitOnce(s, sep) ==
    LET i == IndexOf(s, sep, 1)
    IN  IF i = 0 THEN <<s>> ELSE <<SubSeq(s, 1, i - 1), SubSeq(s, i + 1, Len(s))>>

\* str::split(sep) for a one-character separator.
RECURSIVE SplitOn(_, _)
SplitOn(s, sep) ==
    LET i == IndexOf(s, sep, 1)
    IN  IF i = 0 THEN <<s>>
        ELSE <<SubSeq(s, 1, i - 1)>> \o SplitOn(SubSeq(s, i + 1, Len(s)), sep)

\* The match that also takes the tag "string".
MatchTypeAnyCase(tag) ==
    LET low == [i \in 1..Len(tag) |-> IF tag[i] = "S" THEN "s" ELSE tag[i]]
    IN  CASE low = <<"f", "3", "2">> -> Ok("F32")
          [] low = <<"f", "6", "4">> -> Ok("F64")
          [] low = <<"u", "8">> -> Ok("U8")
          [] low = <<"u", "1", "6">> -> Ok("U16")
          [] low = <<"u", "3", "2">> -> Ok("U32")
          [] low = <<"u", "6", "4">> -> Ok("U64")
          [] low = <<"u", "1", "2", "8">> -> Ok("U128")
          [] low = <<"i", "8">> -> Ok("I8")
          [] low = <<"i", "1", "6">> -> Ok("I16")
          [] low = <<"i", "3", "2">> -> Ok("I32")
          [] low = <<"i", "6", "4">> -> Ok("I64")
          [] low = <<"i", "1", "2", "8">> -> Ok("I128")
          [] low = <<"s", "t", "r", "i", "n", "g">> -> Ok("String")
          [] OTHER -> UnrecognizedType(tag)

\* match chunks[1] { "f32" => SegmentType::F32, ..., _ => return Err(..) }
MatchType(tag) ==
    CASE tag = <<"f", "3", "2">> -> Ok("F32")
      [] tag = <<"f", "6", "4">> -> Ok("F64")
      [] tag = <<"u", "8">> -> Ok("U8")
      [] tag = <<"u", "1", "6">> -> Ok("U16")
      [] tag = <<"u", "3", "2">> -> Ok("U32")
      [] tag = <<"u", "6", "4">> -> Ok("U64")
      [] tag = <<"u", "1", "2", "8">> -> Ok("U128")
      [] tag = <<"i", "8">> -> Ok("I8")
      [] tag = <<"i", "1", "6">> -> Ok("I16")
      [] tag = <<"i", "3", "2">> -> Ok("I32")
      [] tag = <<"i", "6", "4">> -> Ok("I64")
      [] tag = <<"i", "1", "2", "8">> -> Ok("I128")
      [] tag = <<"S", "t", "r", "i", "n", "g">> -> Ok("String")
      [] OTHER -> UnrecognizedType(tag)

\* One iteration of the loop of Schema::path: the segment of the pattern
\* pushed onto the segments so far.  Ok carries the segments after the
\* iteration; an error is what the function returns at once.
PushSegment(segment, segments) ==
    LET first == FirstByte(segment)
    IN  IF ~first.ok THEN first
        ELSE IF first.value = <<"<">>
        THEN LET no_brackets == NoBrackets(segment)
                 chunks == SplitOn(no_brackets, ":")
             IN  IF Len(chunks) > 2
                 THEN SyntaxError(segment, "Expected at most one ':' in path segment")
                 ELSE IF Len(chunks) = 2
                 THEN LET segment_type == MatchType(chunks[2])
                      IN  IF segment_type.ok
                          THEN Ok(Append(segments, Value(chunks[1], segment_type.value)))
                          ELSE segment_type
                 ELSE Ok(Append(segments, Value(chunks[1], "String")))
        ELSE Ok(Append(segments, Literal(segment)))

(***************************************************************************)
(* Path Matcher: parse_path_generic                                      *)
(***************************************************************************)
\* The iteration with the fields of IncorrectSegment exchanged.
MatchSegmentExchanged(segment, segment_schema, path_values) ==
    IF segment_schema.kind = "Literal"
    THEN IF segment # segment_schema.literal
         THEN ErrText("IncorrectSegment", segment_schema.literal, segment)
         ELSE Ok(path_values)
    ELSE LET parsed_value == ParseSegment(segment, segment_schema.segment_type)
         IN  IF parsed_value.ok
             THEN Ok(insert(path_values, segment_schema.name, parsed_value.value))
             ELSE parsed_value

\* The iteration that also keeps a matching literal, as a String under its
\* own text.
MatchSegmentKeepsLiteral(segment, segment_schema, path_values) ==
    IF segment_schema.kind = "Literal"
    THEN IF segment # segment_schema.literal
         THEN ErrText("IncorrectSegment", segment, segment_schema.literal)
         ELSE Ok(insert(path_values, segment, SegmentValue("String", TextDatum(segment))))
    ELSE LET parsed_value == ParseSegment(segment, segment_schema.segment_type)
         IN  IF parsed_value.ok
             THEN Ok(insert(path_values, segment_schema.name, parsed_value.value))
             ELSE parsed_value

\* The loop body that keeps the entry a name already has.
MatchSegmentKeepsFirst(segment, segment_schema, path_values) ==
    IF segment_schema.kind = "Literal"
    THEN IF segment # segment_schema.literal
         THEN ErrText("IncorrectSegment", segment, segment_schema.literal)
         ELSE Ok(path_values)
    ELSE LET parsed_value == ParseSegment(segment, segment_schema.segment_type)
         IN  IF parsed_value.ok
             THEN IF segment_schema.name \in DOMAIN path_values
                  THEN Ok(path_values)
                  ELSE Ok(insert(path_values, segment_schema.name, parsed_value.value))
             ELSE parsed_value

\* One iteration of the loop of parse_path_generic: the path segment against
\* its descriptor, with the map filled so far.  Ok carries the map after
\* the iteration; an error is what the function returns at once.
MatchSegment(segment, segment_schema, path_values) ==
    IF segment_schema.kind = "Literal"
    THEN IF segment # segment_schema.literal
         THEN ErrText("IncorrectSegment", segment, segment_schema.literal)
         ELSE Ok(path_values)
    ELSE LET parsed_value == ParseSegment(segment, segment_schema.segment_type)
         IN  IF parsed_value.ok
             THEN Ok(insert(path_values, segment_schema.name, parsed_value.value))
             ELSE parsed_value

\* The zip that stops one descriptor early.
ZipLenShort(p, sch) ==
    IF Len(sch) = 0 THEN 0 ELSE Min(Len(PathSegments(p)), Len(sch) - 1)

\* The number of (segment, descriptor) pairs the zip yields.
ZipLen(p, sch) == Min(Len(PathSegments(p)), Len(sch))

(***************************************************************************)
(* Structural Deserialization Bridge: Deserializer                         *)
(***************************************************************************)
NoValue == SegmentValue("String", TextDatum(<<>>))

\* DeserializerState
DStart       == [st |-> "Start", key |-> <<>>, value |-> NoValue]
DMap         == [st |-> "Map", key |-> <<>>, value |-> NoValue]
DMapKey(k)   == [st |-> "MapKey", key |-> k, value |-> NoValue]
DMapValue(v) == [st |-> "MapValue", key |-> <<>>, value |-> v]
DEnd         == [st |-> "End", key |-> <<>>, value |-> NoValue]

\* struct Deserializer
Deserializer(m, state) == [generic_parsed_path |-> m, state |-> state]

\* What a handler leaves: the deserializer after the call and the result.
DeOut(d, res) == [de |-> d, res |-> res]

InvalidDeserializerState(expected, got) ==
    ErrText("InvalidDeserializerState", got, expected)

\* The SegmentValue variant the handler deserialize_<T> matches on:
\* deserialize_u16 and deserialize_u32 match SegmentValue::U64, every other
\* handler the variant of its own type.
Matched == [T \in SegmentType |-> IF T \in {"U16", "U32"} THEN "U64" ELSE T]

\* The type name each handler puts into its ExpectedType.
ExpectedName == [T \in SegmentType |->
    CASE T = "I8" -> "i8"
      [] T = "I16" -> "i16"
      [] T = "I32" -> "i32"
      [] T = "I64" -> "i64"
      [] T = "I128" -> "i128"
      [] T = "U8" -> "u8"
      [] T = "U16" -> "u64"
      [] T = "U32" -> "u64"
      [] T = "U64" -> "u64"
      [] T = "U128" -> "u128"
      [] T = "F32" -> "f32"
      [] T = "F64" -> "f64"
      [] T = "String" -> "String"]

\* The name of the Rust type a request deserialize_<type> is for.
TypeName ==
    [T \in SegmentType |->
        IF T = "U16" THEN "u16" ELSE IF T = "U32" THEN "u32" ELSE ExpectedName[T]]

\* The visitor of serde's Deserialize for the primitive T, called with
\* visit_<type of value>(value): the visitor of u16 and u32 takes a u64 that
\* is in its range and refuses any other as an invalid value
\* (Error::custom, SerdeInternalError).
visit(T, value) ==
    IF value.tag = T THEN Ok(value)
    ELSE IF MagLeq(value.v.digs, IntMax[T]) THEN Ok(SegmentValue(T, value.v))
    ELSE ErrText("SerdeInternalError",
                 <<"invalid value: integer ">> \o Render(value) \o <<", expected ", TypeName[T]>>,
                 <<>>)

\* The scalar handler without the assignment of next_state.
deserialize_scalar_same_state(d, T) ==
    IF d.state.st = "MapValue"
    THEN IF d.state.value.tag = Matched[T]
         THEN DeOut(d, visit(T, d.state.value))
         ELSE DeOut(d, ErrText("ExpectedType", d.state.value, ExpectedName[Matched[T]]))
    ELSE DeOut(d, InvalidDeserializerState("MapValue", d.state))

\* The scalar handler that drops the value it refuses.
deserialize_scalar_drops(d, T) ==
    IF d.state.st = "MapValue"
    THEN IF d.state.value.tag = Matched[T]
         THEN DeOut([d EXCEPT !.state = DMap], visit(T, d.state.value))
         ELSE DeOut([d EXCEPT !.state = DMap],
                    ErrText("ExpectedType", d.state.value, ExpectedName[Matched[T]]))
    ELSE DeOut(d, InvalidDeserializerState("MapValue", d.state))

\* deserialize_i8 .. deserialize_u128, deserialize_f32, deserialize_f64,
\* deserialize_string, with the visitor of the primitive T the consumer
\* asks for.  The state is Map after a match, also when the visitor fails.
deserialize_scalar(d, T) ==
    IF d.state.st = "MapValue"
    THEN IF d.state.value.tag = Matched[T]
         THEN DeOut([d EXCEPT !.state = DMap], visit(T, d.state.value))
         ELSE DeOut(d, ErrText("ExpectedType", d.state.value, ExpectedName[Matched[T]]))
    ELSE DeOut(d, InvalidDeserializerState("MapValue", d.state))

\* deserialize_ignored_any that skips the value.
deserialize_ignored_any_skips(d) ==
    IF d.state.st = "MapValue"
    THEN DeOut([d EXCEPT !.state = DMap], Ok(NoValue))
    ELSE DeOut(d, InvalidDeserializerState("MapValue", d.state))

\* deserialize_ignored_any
deserialize_ignored_any(d) ==
    DeOut(d, ErrText("NotSupported", <<>>, "deserialize_ignored_any"))

\* The handler that enters a record from the states before End.
deserialize_map_until_end(d) ==
    IF d.state.st # "End"
    THEN DeOut([d EXCEPT !.state = DMap], Ok(<<>>))
    ELSE DeOut(d, InvalidDeserializerState("Start", d.state))

\* deserialize_map, which deserialize_struct calls; the visitor's visit_map
\* then drives next_key_seed and next_value_seed.
deserialize_map(d) ==
    IF d.state.st = "Start"
    THEN DeOut([d EXCEPT !.state = DMap], Ok(<<>>))
    ELSE DeOut(d, InvalidDeserializerState("Start", d.state))

\* deserialize_identifier that takes the entry of the key out of the map.
deserialize_identifier_takes(d) ==
    IF d.state.st = "MapKey"
    THEN DeOut([d EXCEPT !.generic_parsed_path = remove(d.generic_parsed_path, d.state.key)],
               Ok(d.state.key))
    ELSE DeOut(d, InvalidDeserializerState("MapKey", d.state))

\* deserialize_identifier: hands the key of state MapKey to the visitor.
deserialize_identifier(d) ==
    IF d.state.st = "MapKey"
    THEN DeOut(d, Ok(d.state.key))
    ELSE DeOut(d, InvalidDeserializerState("MapKey", d.state))

\* deserialize_struct that enters a record again once the last one is done.
deserialize_struct_from_end(d) ==
    IF d.state.st = "End"
    THEN DeOut([d EXCEPT !.state = DMap], Ok(<<>>))
    ELSE deserialize_map(d)

\* deserialize_struct
deserialize_struct(d) == deserialize_map(d)

\* The shapes the Deserializer takes no request for, each with the text of
\* its NotSupported: deserialize_any, deserialize_bool, deserialize_char,
\* deserialize_bytes, deserialize_byte_buf, deserialize_option,
\* deserialize_unit, deserialize_unit_struct, deserialize_newtype_struct,
\* deserialize_seq, deserialize_tuple, deserialize_tuple_struct,
\* deserialize_enum.
DeNotSupported ==
    [req \in {"deserialize_any", "deserialize_bool", "deserialize_char", "deserialize_bytes",
              "deserialize_byte_buf", "deserialize_option", "deserialize_unit",
              "deserialize_unit_struct", "deserialize_newtype_struct", "deserialize_seq",
              "deserialize_tuple", "deserialize_tuple_struct", "deserialize_enum"} |->
        CASE req = "deserialize_any" -> "deserialize_any"
          [] req = "deserialize_bool" -> "bool"
          [] req = "deserialize_char" -> "char"
          [] req = "deserialize_bytes" -> "bytes"
          [] req = "deserialize_byte_buf" -> "bytes_buf"
          [] req = "deserialize_option" -> "Option"
          [] req = "deserialize_unit" -> "()"
          [] req = "deserialize_unit_struct" -> "unit struct"
          [] req = "deserialize_newtype_struct" -> "newtype struct"
          [] req = "deserialize_seq" -> "sequence"
          [] req = "deserialize_tuple" -> "tuple"
          [] req = "deserialize_tuple_struct" -> "tuple struct"
          [] req = "deserialize_enum" -> "enum"]

\* The handlers that look at the state first, as the scalar handlers do.
deserialize_not_supported_in_map_value(d, req) ==
    IF d.state.st = "MapValue"
    THEN DeOut(d, ErrText("NotSupported", <<>>, DeNotSupported[req]))
    ELSE DeOut(d, InvalidDeserializerState("MapValue", d.state))

\* deserialize_any, deserialize_bool, deserialize_char, deserialize_bytes ..
\* deserialize_enum: Err(NotSupported(text)), whatever the state.
deserialize_not_supported(d, req) ==
    DeOut(d, ErrText("NotSupported", <<>>, DeNotSupported[req]))

\* The types of a target's field that are no scalar, and the request the
\* Deserialize of each makes of the deserializer: bool, char, Vec<_>, a
\* tuple, Option<_>, (), an enum; a nested record asks deserialize_struct.
ShapeTypes == {"bool", "char", "Vec", "Tuple", "Option", "Unit", "Enum"}
DeserializeOf == [T \in ShapeTypes |->
    CASE T = "bool" -> "deserialize_bool"
      [] T = "char" -> "deserialize_char"
      [] T = "Vec" -> "deserialize_seq"
      [] T = "Tuple" -> "deserialize_tuple"
      [] T = "Option" -> "deserialize_option"
      [] T = "Unit" -> "deserialize_unit"
      [] T = "Enum" -> "deserialize_enum"]

\* seed.deserialize(&mut **self): the request the Deserialize of type T
\* makes; IgnoredAny is the type of a key the target does not declare.
seed_deserialize(d, T) ==
    IF T = "IgnoredAny" THEN deserialize_ignored_any(d)
    ELSE IF T = "Struct" THEN deserialize_struct(d)
    ELSE IF T \in ShapeTypes THEN deserialize_not_supported(d, DeserializeOf[T])
    ELSE deserialize_scalar(d, T)

\* next_key_seed that takes the entry out of the map with the key.
next_key_seed_takes(d, key) ==
    IF d.state.st = "Map"
    THEN IF DOMAIN d.generic_parsed_path # {}
         THEN DeOut(Deserializer(remove(d.generic_parsed_path, key), DMapKey(key)), Ok(<<key>>))
         ELSE DeOut([d EXCEPT !.state = DEnd], Ok(<<>>))
    ELSE DeOut(d, InvalidDeserializerState("Map", d.state))

\* MapAccess::next_key_seed.  key is the entry keys().nth(0) yields, which
\* the HashMap's iteration order decides: any key of the map.  Ok(<<k>>) is
\* Some(k), Ok(<<>>) is None.
next_key_seed(d, key) ==
    IF d.state.st = "Map"
    THEN IF DOMAIN d.generic_parsed_path # {}
         THEN LET d1 == [d EXCEPT !.state = DMapKey(key)]
                  id == deserialize_identifier(d1)
              IN  IF id.res.ok THEN DeOut(id.de, Ok(<<id.res.value>>)) ELSE id
         ELSE DeOut([d EXCEPT !.state = DEnd], Ok(<<>>))
    ELSE DeOut(d, InvalidDeserializerState("Map", d.state))

\* next_value_seed that reads the entry and leaves it in the map.
next_value_seed_keeps(d, T) ==
    IF d.state.st = "MapKey"
    THEN IF d.state.key \in DOMAIN d.generic_parsed_path
         THEN seed_deserialize(Deserializer(d.generic_parsed_path,
                                            DMapValue(d.generic_parsed_path[d.state.key])), T)
         ELSE DeOut(d, Err("Impossible"))
    ELSE DeOut(d, InvalidDeserializerState("MapValue", d.state))

\* MapAccess::next_value_seed.  T is what the seed deserializes: the type of
\* the target's field, or "IgnoredAny" for a key the target does not declare.
next_value_seed(d, T) ==
    IF d.state.st = "MapKey"
    THEN IF d.state.key \in DOMAIN d.generic_parsed_path
         THEN LET value == d.generic_parsed_path[d.state.key]
                  d1 == Deserializer(remove(d.generic_parsed_path, d.state.key),
                                     DMapValue(value))
              IN  seed_deserialize(d1, T)
         ELSE DeOut(d, Err("Impossible"))
    ELSE DeOut(d, InvalidDeserializerState("MapValue", d.state))

(***************************************************************************)
(* Structural Serialization Bridge: Serializer                             *)
(***************************************************************************)
\* SerializerState
SStart          == [st |-> "Start", key |-> <<>>]
SStructKey      == [st |-> "StructKey", key |-> <<>>]
SStructValue(k) == [st |-> "StructValue", key |-> k]
SEnd            == [st |-> "End", key |-> <<>>]

\* struct Serializer
Serializer(m, state) == [serialized_values |-> m, state |-> state]

SerOut(s, res) == [ser |-> s, res |-> res]

InvalidSerializerState(expected, got) ==
    ErrText("InvalidSerializerState", got, expected)

\* The scalar handler that inserts and leaves the state as it is.
serialize_scalar_same_state(s, v) ==
    IF s.state.st = "StructValue"
    THEN SerOut(Serializer(insert(s.serialized_values, s.state.key, Render(v)), s.state),
                Ok(<<>>))
    ELSE SerOut(s, InvalidSerializerState("StructValue", s.state))

\* serialize_i8 .. serialize_u128, serialize_f32, serialize_f64,
\* serialize_str: v is the scalar to render.
serialize_scalar(s, v) ==
    IF s.state.st = "StructValue"
    THEN SerOut(Serializer(insert(s.serialized_values, s.state.key, Render(v)),
                           SStructKey), Ok(<<>>))
    ELSE SerOut(s, InvalidSerializerState("StructValue", s.state))

\* Serializer::serialize_struct
serialize_struct(s) == SerOut([s EXCEPT !.state = SStructKey], Ok(<<>>))

\* end that leaves the Serializer ready for another field.
serialize_end_to_struct_key(s) == SerOut([s EXCEPT !.state = SStructKey], Ok(<<>>))

\* SerializeStruct::end
serialize_end(s) == SerOut([s EXCEPT !.state = SEnd], Ok(<<>>))

\* The values the Serializer takes no request for, by the tag of the value,
\* each with the text of its NotSupported: serialize_bool, serialize_char,
\* serialize_seq, serialize_tuple, serialize_none, serialize_some,
\* serialize_unit.
SerNotSupported ==
    [tag \in {"bool", "char", "Vec", "Tuple", "None", "Some", "Unit"} |->
        CASE tag = "bool" -> "bool"
          [] tag = "char" -> "char"
          [] tag = "Vec" -> "sequence"
          [] tag = "Tuple" -> "tuple"
          [] tag = "None" -> "None"
          [] tag = "Some" -> "Some"
          [] tag = "Unit" -> "unit"]

serialize_not_supported(s, tag) ==
    SerOut(s, ErrText("NotSupported", <<>>, SerNotSupported[tag]))

\* value.serialize(serializer): a scalar makes its serialize_<type> request,
\* a record (tag "Struct", its fields in inner) makes the requests of the
\* derived Serialize: serialize_struct, serialize_field for each field in
\* declaration order, end; "?" hands back the first error.
RECURSIVE serialize_value(_, _)
RECURSIVE serialize_fields(_, _)

\* SerializeStruct::serialize_field up to the value's serialize call: the
\* match on the state.
serialize_field_state(s, key) ==
    IF s.state.st = "StructKey"
    THEN SerOut([s EXCEPT !.state = SStructValue(key)], Ok(<<>>))
    ELSE SerOut(s, InvalidSerializerState("StructKey", s.state))

\* SerializeStruct::serialize_field, with the value's own serialize call.
serialize_field(s, key, value) ==
    LET matched == serialize_field_state(s, key)
    IN  IF matched.res.ok THEN serialize_value(matched.ser, value) ELSE matched

serialize_fields(s, record_fields) ==
    IF record_fields = <<>> THEN SerOut(s, Ok(<<>>))
    ELSE LET out == serialize_field(s, Head(record_fields).name, Head(record_fields).value)
         IN  IF out.res.ok THEN serialize_fields(out.ser, Tail(record_fields)) ELSE out

serialize_value(s, v) ==
    IF v.tag \in SegmentType THEN serialize_scalar(s, v)
    ELSE IF v.tag = "Struct"
    THEN LET begun == serialize_struct(s)
             done  == serialize_fields(begun.ser, v.inner)
         IN  IF ~begun.res.ok THEN begun
             ELSE IF ~done.res.ok THEN done
             ELSE serialize_end(done.ser)
    ELSE serialize_not_supported(s, v.tag)

(***************************************************************************)
(* Generate (assembly): the loop of generate_path                          *)
(***************************************************************************)
\* The iteration with the arguments of format! exchanged.
AssembleSegmentInFront(generated_path, segment_schema, serialized_values) ==
    IF segment_schema.kind = "Literal"
    THEN Ok(segment_schema.literal \o <<"/">> \o generated_path)
    ELSE IF segment_schema.name \in DOMAIN serialized_values
         THEN Ok(serialized_values[segment_schema.name] \o <<"/">> \o generated_path)
         ELSE ErrText("MissingField", segment_schema.name, <<>>)

\* The iteration that takes the text of an absent field to be empty.
AssembleSegmentOrEmpty(generated_path, segment_schema, serialized_values) ==
    IF segment_schema.kind = "Literal"
    THEN Ok(generated_path \o <<"/">> \o segment_schema.literal)
    ELSE IF segment_schema.name \in DOMAIN serialized_values
         THEN Ok(generated_path \o <<"/">> \o serialized_values[segment_schema.name])
         ELSE Ok(generated_path \o <<"/">>)

\* The iteration that writes the "/" behind the segment.
AssembleSegmentSlashBehind(generated_path, segment_schema, serialized_values) ==
    IF segment_schema.kind = "Literal"
    THEN Ok(generated_path \o segment_schema.literal \o <<"/">>)
    ELSE IF segment_schema.name \in DOMAIN serialized_values
         THEN Ok(generated_path \o serialized_values[segment_schema.name] \o <<"/">>)
         ELSE ErrText("MissingField", segment_schema.name, <<>>)

\* One iteration: the path so far extended by one descriptor.
AssembleSegment(generated_path, segment_schema, serialized_values) ==
    IF segment_schema.kind = "Literal"
    THEN Ok(generated_path \o <<"/">> \o segment_schema.literal)
    ELSE IF segment_schema.name \in DOMAIN serialized_values
         THEN Ok(generated_path \o <<"/">> \o serialized_values[segment_schema.name])
         ELSE ErrText("MissingField", segment_schema.name, <<>>)

(***************************************************************************)
(* Inputs                                                                  *)
(***************************************************************************)
\* Bounds of the model.
MaxSchemaLen == 2
MaxExtra == 1

NameX == <<"x">>
NameY == <<"y">>
LitA == <<"a">>
LitX == <<"x">>
LitSlash == <<"a", "/", "b">>

\* Succ(ds) = ds + 1
Succ(ds) ==
    LET not9 == {i \in 1..Len(ds) : ds[i] # "9"}
    IN  IF not9 = {} THEN <<"1">> \o Zeros(Len(ds))
        ELSE [i \in 1..Len(ds) |->
                IF i < Greatest(not9) THEN ds[i]
                ELSE IF i = Greatest(not9) THEN DigitChar[DigitVal[ds[i]] + 2] ELSE "0"]

RECURSIVE SeqsUpTo(_, _)
SeqsUpTo(S, n) ==
    IF n = 0 THEN {<<>>}
    ELSE LET shorter == SeqsUpTo(S, n - 1)
         IN  shorter \cup {Append(q, e) : q \in {r \in shorter : Len(r) = n - 1}, e \in S}

\* The descriptors the structural schemas are built from, every sequence of
\* them up to MaxSchemaLen; one schema per scalar type, whose value segment
\* is drawn from a richer set of texts; and the schemas with one name under
\* two types and with a literal no path segment can equal (Schema::literal
\* takes any text).
StructDescs == {Literal(LitA), Literal(LitX), Value(NameX, "U8"), Value(NameY, "String")}
StructSchemas == SeqsUpTo(StructDescs, MaxSchemaLen)
TypeSchemas == {<<Literal(LitA), Value(NameX, T)>> : T \in SegmentType}
EdgeSchemas ==
    { <<Value(NameX, "U8"), Value(NameX, "String")>>,
      <<Value(NameX, "String"), Value(NameX, "U8")>>,
      <<Literal(LitSlash), Value(NameX, "U8")>>,
      <<Value(NameX, "I128"), Value(NameY, "U64")>> }
Schemas == StructSchemas \cup TypeSchemas \cup EdgeSchemas

\* Texts of one path segment.
IntTexts(T) ==
    { <<"0">>, <<"1">>, <<"+", "1">>, <<"0", "1">>, <<"-", "1">>, <<"-", "0">>,
      <<"a">>, <<>>, <<"-">>,
      <<"2", "5", "6">>, <<"-", "1", "2", "9">>,
      IntMax[T], Succ(IntMax[T]),
      <<"-">> \o IntMinMag[T], <<"-">> \o Succ(IntMinMag[T]) }
FloatTexts ==
    { <<"1", ".", "5">>, <<"1", ".", "5", "0">>, <<".", "5">>, <<"1", ".">>,
      <<"1", "e", "2">>, <<"1", "0", "0">>, <<"0", ".", "0", "5">>, <<"-", "0">>,
      <<"0">>, <<"+", "1">>, <<"N", "a", "N">>, <<"n", "a", "n">>,
      <<"i", "n", "f">>, <<"-", "i", "n", "f">>, <<"a">>, <<>>, <<".">>,
      <<"1", "e">> }
StringTexts == {<<"a">>, <<>>, <<"-", "1">>}
RichTexts(T) ==
    IF T \in IntTypes THEN IntTexts(T)
    ELSE IF T \in FloatTypes THEN FloatTexts ELSE StringTexts
PlainTexts(T) ==
    IF T = "String" THEN {<<"a">>, <<>>}
    ELSE {<<"1">>, <<"0", "1">>, <<"2", "5", "6">>, <<"-", "1">>}
SegTexts(sch, i) ==
    IF i > Len(sch) THEN {<<"a">>}
    ELSE IF sch[i].kind = "Literal" THEN {LitA, LitX}
    ELSE IF sch \in TypeSchemas THEN RichTexts(sch[i].segment_type)
    ELSE PlainTexts(sch[i].segment_type)

\* The sequences of n segment texts for a schema.
RECURSIVE SegLists(_, _)
SegLists(sch, n) ==
    IF n = 0 THEN {<<>>}
    ELSE {Append(q, t) : q \in SegLists(sch, n - 1), t \in SegTexts(sch, n)}

\* first/seg1/seg2/...: the text before the first "/" and the segments.
RECURSIVE Join(_, _)
Join(first, segs) ==
    IF segs = <<>> THEN first
    ELSE Join(first \o <<"/">> \o Head(segs), Tail(segs))

FirstTokens == {<<>>, <<"z">>}

Paths(sch) ==
    {Join(first, segs) : first \in FirstTokens,
                         segs \in UNION {SegLists(sch, n) : n \in 0..(Len(sch) + MaxExtra)}}

\* The names of the Value descriptors of a schema, and the types declared
\* for a name.
ValueNames(sch) == {sch[i].name : i \in {j \in 1..Len(sch) : sch[j].kind = "Value"}}
DeclaredTypes(sch, n) ==
    {sch[i].segment_type : i \in {j \in 1..Len(sch) : sch[j].kind = "Value" /\ sch[j].name = n}}
DistinctNames(sch) ==
    \A i, j \in 1..Len(sch) :
        (i # j /\ sch[i].kind = "Value" /\ sch[j].kind = "Value") => sch[i].name # sch[j].name

\* The orders in which a record may declare the names of set S.
Orders(S) == {q \in SeqsUpTo(S, Cardinality(S)) :
                 Len(q) = Cardinality(S) /\ \A i, j \in 1..Len(q) : i # j => q[i] # q[j]}

\* A target record type: its fields in declaration order, [name, segment_type].
\* A field the schema names has a type the schema declares for it, any other
\* field is a String.  The target of a per-type schema declares exactly the
\* schema's field; the targets of the other schemas declare any of the
\* names x, y, in any order.
Field(n, T) == [name |-> n, segment_type |-> T]
TargetTypes(sch, n) == IF n \in ValueNames(sch) THEN DeclaredTypes(sch, n) ELSE {"String"}
RECURSIVE TypedFields(_, _)
TypedFields(sch, names) ==
    IF names = <<>> THEN {<<>>}
    ELSE {<<Field(Head(names), T)>> \o rest :
             T \in TargetTypes(sch, Head(names)), rest \in TypedFields(sch, Tail(names))}
TargetNames(sch) ==
    IF sch \in TypeSchemas THEN {ValueNames(sch)} ELSE SUBSET {NameX, NameY}
Targets(sch) ==
    UNION {TypedFields(sch, q) : q \in UNION {Orders(S) : S \in TargetNames(sch)}}

\* Scalars a record field may hold.
IntValues(T) ==
    {SegmentValue(T, IntDatum(FALSE, <<"0">>)), SegmentValue(T, IntDatum(FALSE, IntMax[T]))}
    \cup (IF T \in SignedTypes
          THEN {SegmentValue(T, IntDatum(TRUE, <<"1">>)), SegmentValue(T, IntDatum(TRUE, IntMinMag[T]))}
          ELSE {})
FloatValues(T) ==
    {SegmentValue(T, f) :
        f \in {FloatFin(FALSE, <<"1", "5">>, -1), FloatFin(FALSE, <<"1">>, 2),
               FloatFin(TRUE, <<"5">>, -2), FloatFin(FALSE, <<>>, 0), FloatFin(TRUE, <<>>, 0),
               FloatInf(FALSE), FloatInf(TRUE), FloatNaN}}
StringValues ==
    {SegmentValue("String", TextDatum(t)) : t \in {<<"a">>, <<>>, <<"-", "1">>, LitSlash}}
RichValues(T) ==
    IF T \in IntTypes THEN IntValues(T)
    ELSE IF T \in FloatTypes THEN FloatValues(T) ELSE StringValues
PlainValues(T) ==
    IF T = "String" THEN {SegmentValue("String", TextDatum(<<"a">>))}
    ELSE {SegmentValue(T, IntDatum(FALSE, <<"7">>))}
FieldValues(sch, n) ==
    IF n \in ValueNames(sch)
    THEN UNION {IF sch \in TypeSchemas THEN RichValues(T) ELSE PlainValues(T) :
                   T \in DeclaredTypes(sch, n)}
    ELSE PlainValues("String")

\* A source record: its fields in declaration order, [name, value].  The
\* records offered to generate hold any of the names x, y, in any order.
FieldValue(n, v) == [name |-> n, value |-> v]
RECURSIVE ValuedFields(_, _)
ValuedFields(sch, names) ==
    IF names = <<>> THEN {<<>>}
    ELSE {<<FieldValue(Head(names), v)>> \o rest :
             v \in FieldValues(sch, Head(names)), rest \in ValuedFields(sch, Tail(names))}
Records(sch) ==
    UNION {ValuedFields(sch, q) : q \in UNION {Orders(S) : S \in SUBSET {NameX, NameY}}}

\* The type a record declares: its field names with the types of its values.
TypeOf(rec) == [i \in 1..Len(rec) |-> Field(rec[i].name, rec[i].value.tag)]

(***************************************************************************)
(* The program: a caller parses a path and generates a path from the       *)
(* parsed record (flow "parse_generate", test_roundtrip), or generates a   *)
(* path from a record and parses it back (flow "generate_parse").          *)
(***************************************************************************)
VARIABLES
    flow,            \* the caller: "parse_generate" or "generate_parse"
    schema,          \* the Schema both calls use
    path,            \* the path given to parse
    target,          \* T of parse_path: the fields of the target record type
    record,          \* the parameters given to generate
    pc,              \* the position in the code
    pos,             \* parse_path_generic: pairs drawn from the zip so far
    path_values,     \* parse_path_generic: the map filled so far
    generic_parsed_path_value,  \* the Result parse_path_generic returned
    deserializer,    \* parse_path: the Deserializer
    fields,          \* the derived visit_map: the fields collected so far
    parsed,          \* the Result parse returned
    serializer,      \* generate_path: the Serializer
    fi,              \* the derived serialize: fields of the record serialized so far
    generated_path,  \* generate_path: the path assembled so far
    gi,              \* generate_path: descriptors walked so far
    generated,       \* the Result generate returned
    path_i,          \* Schema::path: segments of its argument pushed so far
    schema_result,   \* the Result Schema::path returned
    builder_calls,   \* the descriptors a caller hands to the builder, in order
    built,           \* the Schema the builder chain holds
    request,         \* the last request a consumer made of a bridge
    response,        \* the Result of that request
    held,            \* what each serialize call in progress holds, innermost last
    suspended        \* the position of the call that is not running

vars == <<flow, schema, path, target, record, pc, pos, path_values,
          generic_parsed_path_value, deserializer, fields, parsed,
          serializer, fi, generated_path, gi, generated,
          path_i, schema_result, builder_calls, built, request, response, held, suspended>>

parseVars == <<pos, path_values, generic_parsed_path_value, deserializer, fields, parsed>>
generateVars == <<serializer, fi, generated_path, gi, generated>>
dslVars == <<path_i, schema_result, builder_calls, built>>
requestVars == <<request, response, held>>
\* What no step of parse or generate changes.
inputVars == <<flow, schema, target, dslVars, requestVars, suspended>>

\* No Result yet.
Pending == Err("Pending")

InitCalls ==
    /\ pos = 0
    /\ path_values = EmptyMap
    /\ generic_parsed_path_value = Pending
    /\ deserializer = Deserializer(EmptyMap, DStart)
    /\ fields = EmptyMap
    /\ parsed = Pending
    /\ serializer = Serializer(EmptyMap, SStart)
    /\ fi = 0
    /\ generated_path = <<>>
    /\ gi = 0
    /\ generated = Pending

\* No Schema::path call and no builder chain; no request made of a bridge
\* from outside parse and generate; no second call.
NoDsl ==
    /\ path_i = 0
    /\ schema_result = Pending
    /\ builder_calls = <<>>
    /\ built = Schema_new
NoRequest ==
    /\ request = "none"
    /\ response = Pending
    /\ held = <<>>
NoSecondCall == suspended = "done"

Init ==
    /\ schema \in Schemas
    /\ \/ /\ flow = "parse_generate"
          /\ path \in Paths(schema)
          /\ target \in Targets(schema)
          /\ record = <<>>
          /\ pc = "parse_path_generic"
       \/ /\ flow = "generate_parse"
          /\ record \in Records(schema)
          /\ target = TypeOf(record)
          /\ path = <<>>
          /\ pc = "generate_path"
    /\ InitCalls
    /\ NoDsl
    /\ NoRequest
    /\ NoSecondCall

(***************************************************************************)
(* parse: parse_path_generic, then the Deserializer under the derived      *)
(* Deserialize of the target record                                        *)
(***************************************************************************)
\* The iteration that notes its error and goes on with the next pair.
parse_path_generic_step_goes_on ==
    /\ pc = "parse_path_generic"
    /\ pos < ZipLen(path, schema)
    /\ LET r == MatchSegment(PathSegments(path)[pos + 1], schema[pos + 1], path_values)
       IN  /\ pos' = pos + 1
           /\ IF r.ok
              THEN /\ path_values' = r.value
                   /\ UNCHANGED <<pc, generic_parsed_path_value>>
              ELSE /\ generic_parsed_path_value' = r
                   /\ UNCHANGED <<pc, path_values>>
    /\ UNCHANGED <<inputVars, path, record, deserializer, fields, parsed, generateVars>>

\* One iteration of the loop of parse_path_generic.  A failing iteration
\* returns its error at once.
parse_path_generic_step ==
    /\ pc = "parse_path_generic"
    /\ pos < ZipLen(path, schema)
    /\ LET r == MatchSegment(PathSegments(path)[pos + 1], schema[pos + 1], path_values)
       IN  /\ pos' = pos + 1
           /\ IF r.ok
              THEN /\ path_values' = r.value
                   /\ UNCHANGED <<pc, generic_parsed_path_value>>
              ELSE /\ generic_parsed_path_value' = r
                   /\ pc' = "parse_path"
                   /\ UNCHANGED path_values
    /\ UNCHANGED <<inputVars, path, record, deserializer, fields, parsed, generateVars>>

\* The zip is exhausted: Ok(path_values).
parse_path_generic_return ==
    /\ pc = "parse_path_generic"
    /\ pos = ZipLen(path, schema)
    /\ generic_parsed_path_value' = Ok(path_values)
    /\ pc' = "parse_path"
    /\ UNCHANGED <<inputVars, path, record, pos, path_values, deserializer, fields, parsed,
                   generateVars>>

\* parse_path after parse_path_generic: the error leaves through "?", or
\* the Deserializer is built and T::deserialize calls deserialize_struct,
\* which calls deserialize_map, which hands the deserializer to visit_map.
parse_path ==
    /\ pc = "parse_path"
    /\ IF ~generic_parsed_path_value.ok
       THEN /\ parsed' = generic_parsed_path_value
            /\ pc' = "parse_returned"
            /\ UNCHANGED deserializer
       ELSE LET out == deserialize_map(Deserializer(generic_parsed_path_value.value, DStart))
            IN  /\ deserializer' = out.de
                /\ IF out.res.ok
                   THEN pc' = "visit_map" /\ UNCHANGED parsed
                   ELSE pc' = "parse_returned" /\ parsed' = out.res
    /\ UNCHANGED <<inputVars, path, record, pos, path_values, generic_parsed_path_value,
                   fields, generateVars>>

\* A value that is no scalar: its tag and what it holds, as fields in
\* order (the fields of a record, the value of Some under the empty name).
Shape(tag, inner) == [tag |-> tag, v |-> TextDatum(<<>>), inner |-> inner]

\* Option::None
None == Shape("None", <<>>)

\* The fields of the target that visit_map has not been given and that
\* serde's missing_field cannot fill: it fills an Option field with None.
MissingFields ==
    {i \in 1..Len(target) :
        target[i].name \notin DOMAIN fields /\ target[i].segment_type # "Option"}

\* The record visit_map builds: the target's fields with the values collected.
BuiltRecord ==
    [i \in 1..Len(target) |->
        FieldValue(target[i].name,
                   IF target[i].name \in DOMAIN fields THEN fields[target[i].name] ELSE None)]

\* The derived visit_map asks for the next key.  None ends the loop: a field
\* never given is serde's missing-field error (Error::custom), else the
\* record is returned.
visit_map_next_key ==
    /\ pc = "visit_map"
    /\ \E key \in IF DOMAIN deserializer.generic_parsed_path = {}
                   THEN {<<>>} ELSE DOMAIN deserializer.generic_parsed_path :
          LET out == next_key_seed(deserializer, key)
          IN  /\ deserializer' = out.de
              /\ IF ~out.res.ok
                 THEN pc' = "parse_returned" /\ parsed' = out.res
                 ELSE IF out.res.value # <<>>
                 THEN pc' = "visit_map_value" /\ UNCHANGED parsed
                 ELSE /\ pc' = "parse_returned"
                      /\ parsed' = IF MissingFields = {}
                                    THEN Ok(BuiltRecord)
                                    ELSE ErrText("SerdeInternalError",
                                                 target[Least(MissingFields)].name, <<>>)
    /\ UNCHANGED <<inputVars, path, record, pos, path_values, generic_parsed_path_value,
                   fields, generateVars>>

\* The type the derived visit_map deserializes the value of a key as: the
\* type of the field of that name, IgnoredAny for a key that is no field.
SeedOf(key) ==
    IF \E i \in 1..Len(target) : target[i].name = key
    THEN target[CHOOSE i \in 1..Len(target) : target[i].name = key].segment_type
    ELSE "IgnoredAny"

\* The derived visit_map asks for the value of the key it was given.
visit_map_next_value ==
    /\ pc = "visit_map_value"
    /\ LET key == deserializer.state.key
           out == next_value_seed(deserializer, SeedOf(key))
       IN  /\ deserializer' = out.de
           /\ IF out.res.ok
              THEN /\ fields' = insert(fields, key, out.res.value)
                   /\ pc' = "visit_map"
                   /\ UNCHANGED parsed
              ELSE /\ parsed' = out.res
                   /\ pc' = "parse_returned"
                   /\ UNCHANGED fields
    /\ UNCHANGED <<inputVars, path, record, pos, path_values, generic_parsed_path_value,
                   generateVars>>

(***************************************************************************)
(* generate: the Serializer under the derived Serialize of the record,     *)
(* then the assembly loop of generate_path                                 *)
(***************************************************************************)
\* generate_path with one map for every call: building the Serializer
\* empties the map a parse call is filling.
generate_path_shared_map ==
    /\ pc = "generate_path"
    /\ LET out == serialize_struct(Serializer(EmptyMap, SStart))
       IN  /\ serializer' = out.ser
           /\ IF out.res.ok
              THEN pc' = "serialize_fields" /\ UNCHANGED generated
              ELSE pc' = "generate_returned" /\ generated' = out.res
    /\ fi' = 0
    /\ path_values' = EmptyMap
    /\ UNCHANGED <<inputVars, path, record, pos, generic_parsed_path_value, deserializer,
                   fields, parsed, generated_path, gi>>

\* generate_path builds the Serializer; the derived serialize of the record
\* calls serialize_struct.
generate_path ==
    /\ pc = "generate_path"
    /\ LET out == serialize_struct(Serializer(EmptyMap, SStart))
       IN  /\ serializer' = out.ser
           /\ IF out.res.ok
              THEN pc' = "serialize_fields" /\ UNCHANGED generated
              ELSE pc' = "generate_returned" /\ generated' = out.res
    /\ fi' = 0
    /\ UNCHANGED <<inputVars, path, record, parseVars, generated_path, gi>>

\* The derived serialize hands the next field of the record, in declaration
\* order, to serialize_field; an error leaves generate_path through "?".
serialize_field_step ==
    /\ pc = "serialize_fields"
    /\ fi < Len(record)
    /\ LET out == serialize_field(serializer, record[fi + 1].name, record[fi + 1].value)
       IN  /\ serializer' = out.ser
           /\ IF out.res.ok
              THEN fi' = fi + 1 /\ UNCHANGED <<pc, generated>>
              ELSE pc' = "generate_returned" /\ generated' = out.res /\ UNCHANGED fi
    /\ UNCHANGED <<inputVars, path, record, parseVars, generated_path, gi>>

\* After the last field the derived serialize calls end; generate_path
\* starts the assembly with the empty String.
serialize_struct_end ==
    /\ pc = "serialize_fields"
    /\ fi = Len(record)
    /\ LET out == serialize_end(serializer)
       IN  /\ serializer' = out.ser
           /\ IF out.res.ok
              THEN pc' = "assemble" /\ UNCHANGED generated
              ELSE pc' = "generate_returned" /\ generated' = out.res
    /\ generated_path' = <<>>
    /\ gi' = 0
    /\ UNCHANGED <<inputVars, path, record, parseVars, fi>>

\* One iteration of the loop of generate_path over schema.segments.
assemble_step ==
    /\ pc = "assemble"
    /\ gi < Len(schema)
    /\ LET r == AssembleSegment(generated_path, schema[gi + 1], serializer.serialized_values)
       IN  IF r.ok
           THEN /\ generated_path' = r.value
                /\ gi' = gi + 1
                /\ UNCHANGED <<pc, generated>>
           ELSE /\ generated' = r
                /\ pc' = "generate_returned"
                /\ UNCHANGED <<generated_path, gi>>
    /\ UNCHANGED <<inputVars, path, record, parseVars, serializer, fi>>

\* The loop is over: Ok(generated_path).
assemble_return ==
    /\ pc = "assemble"
    /\ gi = Len(schema)
    /\ generated' = Ok(generated_path)
    /\ pc' = "generate_returned"
    /\ UNCHANGED <<inputVars, path, record, parseVars, serializer, fi, generated_path, gi>>

(***************************************************************************)
(* The callers                                                             *)
(***************************************************************************)
\* parse has returned.  The caller of flow parse_generate hands the parsed
\* record to generate; an error ends the flow.
after_parse ==
    /\ pc = "parse_returned"
    /\ IF flow = "parse_generate" /\ parsed.ok
       THEN record' = parsed.value /\ pc' = "generate_path"
       ELSE UNCHANGED record /\ pc' = "done"
    /\ UNCHANGED <<inputVars, path, parseVars, generateVars>>

\* generate has returned.  The caller of flow generate_parse hands the
\* generated path to parse; an error ends the flow.
after_generate ==
    /\ pc = "generate_returned"
    /\ IF flow = "generate_parse" /\ generated.ok
       THEN path' = generated.value /\ pc' = "parse_path_generic"
       ELSE UNCHANGED path /\ pc' = "done"
    /\ UNCHANGED <<inputVars, record, parseVars, generateVars>>

Next ==
    \/ parse_path_generic_step
    \/ parse_path_generic_return
    \/ parse_path
    \/ visit_map_next_key
    \/ visit_map_next_value
    \/ generate_path
    \/ serialize_field_step
    \/ serialize_struct_end
    \/ assemble_step
    \/ assemble_return
    \/ after_parse
    \/ after_generate

Spec == Init /\ [][Next]_vars

(***************************************************************************)
(* Schema construction: a caller builds a Schema with Schema::path from a  *)
(* pattern, and with the builder chain Schema::new().literal(..).value(..) *)
(* (test_schema_path, test_schema_building).  In these calls the variable  *)
(* path is the argument of Schema::path and schema is its local Schema.    *)
(***************************************************************************)
\* Bound of the model: the segments of a pattern.
MaxPatternLen == 2

\* The tag Schema::path matches for each SegmentType.
TypeTag == [T \in SegmentType |->
    CASE T = "F32" -> <<"f", "3", "2">>
      [] T = "F64" -> <<"f", "6", "4">>
      [] T = "U8" -> <<"u", "8">>
      [] T = "U16" -> <<"u", "1", "6">>
      [] T = "U32" -> <<"u", "3", "2">>
      [] T = "U64" -> <<"u", "6", "4">>
      [] T = "U128" -> <<"u", "1", "2", "8">>
      [] T = "I8" -> <<"i", "8">>
      [] T = "I16" -> <<"i", "1", "6">>
      [] T = "I32" -> <<"i", "3", "2">>
      [] T = "I64" -> <<"i", "6", "4">>
      [] T = "I128" -> <<"i", "1", "2", "8">>
      [] T = "String" -> <<"S", "t", "r", "i", "n", "g">>]

\* The pattern of a descriptor and of a sequence of descriptors: "/text"
\* for a literal, "/<name:tag>" for a value.
WriteDescriptor(d) ==
    IF d.kind = "Literal" THEN <<"/">> \o d.literal
    ELSE <<"/", "<">> \o d.name \o <<":">> \o TypeTag[d.segment_type] \o <<">">>
RECURSIVE WritePattern(_)
WritePattern(ds) ==
    IF ds = <<>> THEN <<>> ELSE WriteDescriptor(Head(ds)) \o WritePattern(Tail(ds))

\* The descriptors handed to the builder: literals and names with and
\* without the characters the pattern syntax uses, every type.
DslLiterals == {LitA, LitSlash, <<"<", "z">>, <<"é">>, <<"a", ":", ">">>}
DslNames == {NameX, <<>>, <<"x", ":", "y">>, <<"x", ">">>, <<"x", "/", "y">>, <<"<", "x">>, <<"é">>}
DslDescs ==
    {Literal(l) : l \in DslLiterals} \cup {Value(NameX, T) : T \in SegmentType}
        \cup {Value(n, "U8") : n \in DslNames}

\* The segments patterns are made of.
RawTokens ==
    { <<"<", "b", "a", "r", ">">>,
      <<"<", "b", "a", "r">>,
      <<"<", "b", ">", "z", ">">>,
      <<"<", "a", ":", "b", ":", "c", ">">>,
      <<"<", ":", ":", ">">>,
      <<"<", "a", ":", "u", "8", ">">>,
      <<"<", "a", ":", "U", "8", ">">>,
      <<"<", "a", ":", "s", "t", "r", "i", "n", "g", ">">>,
      <<"<", "a", ":", "S", "t", "r", "i", "n", "g", ">">>,
      <<"<", "a", ":", ">">>,
      <<"<", ":", "u", "8", ">">>,
      <<"<", ">">>,
      <<"<">>,
      <<>>,
      <<"a">>,
      <<"é">>,
      <<"a", "<", "b", ">">>,
      <<"<", "a", ">", ":", "b", ":", "c", ">">>,
      <<"<", "a", ":", "u", "8", ">", "x">>,
      <<"<", "a", ":", "i", "1", "2", "8">> }
RawPatterns ==
    {Join(first, toks) : first \in FirstTokens, toks \in SeqsUpTo(RawTokens, MaxPatternLen)}

PathInit ==
    /\ \/ /\ flow = "written"
          /\ builder_calls \in SeqsUpTo(DslDescs, MaxPatternLen)
          /\ path = WritePattern(builder_calls)
       \/ /\ flow = "pattern"
          /\ builder_calls = <<>>
          /\ path \in RawPatterns
    /\ schema = Schema_new
    /\ built = Schema_new
    /\ path_i = 0
    /\ schema_result = Pending
    /\ pc = "path"
    /\ target = <<>>
    /\ record = <<>>
    /\ InitCalls
    /\ NoRequest
    /\ NoSecondCall

\* One iteration of the loop of Schema::path.  A failing iteration returns
\* its error at once; a panic returns nothing.
path_segment ==
    /\ pc = "path"
    /\ path_i < Len(PathSegments(path))
    /\ LET r == PushSegment(PathSegments(path)[path_i + 1], schema)
       IN  /\ path_i' = path_i + 1
           /\ IF r.ok
              THEN schema' = r.value /\ UNCHANGED <<pc, schema_result>>
              ELSE IF r.err = "Panic"
              THEN pc' = "panicked" /\ UNCHANGED <<schema, schema_result>>
              ELSE schema_result' = r /\ pc' = "path_returned" /\ UNCHANGED schema
    /\ UNCHANGED <<flow, path, target, record, parseVars, generateVars, builder_calls, built,
                   requestVars, suspended>>

\* The loop is over: Ok(schema).
path_return ==
    /\ pc = "path"
    /\ path_i = Len(PathSegments(path))
    /\ schema_result' = Ok(schema)
    /\ pc' = "path_returned"
    /\ UNCHANGED <<flow, schema, path, target, record, parseVars, generateVars, path_i,
                   builder_calls, built, requestVars, suspended>>

\* The next call of the builder chain is literal(text).
builder_literal ==
    /\ Len(built) < Len(builder_calls)
    /\ builder_calls[Len(built) + 1].kind = "Literal"
    /\ built' = Schema_literal(built, builder_calls[Len(built) + 1].literal)
    /\ UNCHANGED <<flow, schema, path, target, record, pc, parseVars, generateVars, path_i,
                   schema_result, builder_calls, requestVars, suspended>>

\* The next call of the builder chain is value(name, type).
builder_value ==
    /\ Len(built) < Len(builder_calls)
    /\ builder_calls[Len(built) + 1].kind = "Value"
    /\ built' = Schema_value(built, builder_calls[Len(built) + 1].name,
                             builder_calls[Len(built) + 1].segment_type)
    /\ UNCHANGED <<flow, schema, path, target, record, pc, parseVars, generateVars, path_i,
                   schema_result, builder_calls, requestVars, suspended>>

PathNext ==
    \/ path_segment
    \/ path_return
    \/ builder_literal
    \/ builder_value

PathSpec == PathInit /\ [][PathNext]_vars

(***************************************************************************)
(* The bridges under any consumer: parse into a target record and generate *)
(* from a record whose fields may be lists, options and nested records     *)
(* (flows "parse" and "generate"), and a Deserialize implementation that   *)
(* makes requests of the Deserializer in any order (flow "requests").      *)
(***************************************************************************)
NameZ == <<"z">>
NameW == <<"w">>

ShapeDescs == {Literal(LitA), Value(NameX, "U8"), Value(NameY, "String")}
ShapeSchemas == SeqsUpTo(ShapeDescs, MaxSchemaLen)

\* The paths given to parse: no longer than the schema, one or two texts
\* per segment.
ShapeTexts(d) ==
    IF d.kind = "Literal" THEN {LitA}
    ELSE IF d.segment_type = "String" THEN {<<"a">>}
    ELSE {<<"1">>, <<"2", "5", "6">>}
RECURSIVE ShapeSegLists(_, _)
ShapeSegLists(sch, n) ==
    IF n = 0 THEN {<<>>}
    ELSE {Append(q, t) : q \in ShapeSegLists(sch, n - 1), t \in ShapeTexts(sch[n])}
ShapePaths(sch) == {Join(<<>>, segs) : segs \in UNION {ShapeSegLists(sch, n) : n \in 0..Len(sch)}}

\* The target record types: any of the fields x, y in any order, each a u8,
\* a String, a Vec<_>, an Option<_> or a record of its own.
ShapeFieldTypes == {"U8", "String", "Vec", "Option", "Struct"}
ShapeTargets ==
    UNION {{[i \in 1..Len(q) |-> Field(q[i], ty[i])] : ty \in [1..Len(q) -> ShapeFieldTypes]} :
              q \in UNION {Orders(S) : S \in SUBSET {NameX, NameY}}}

\* The values of a record's field: a u8, a String, a Vec, None, Some(_), and
\* records (tag "Struct", with the fields in declaration order) of a scalar
\* field and of a list field.
Some(v) == Shape("Some", <<FieldValue(<<>>, v)>>)
ShapeValues ==
    { SegmentValue("U8", IntDatum(FALSE, <<"7">>)),
      SegmentValue("String", TextDatum(<<"a">>)),
      Shape("Vec", <<>>),
      None,
      Some(SegmentValue("U8", IntDatum(FALSE, <<"7">>))),
      Shape("Struct", <<FieldValue(NameY, SegmentValue("String", TextDatum(<<"b">>)))>>),
      Shape("Struct", <<FieldValue(NameW, Shape("Vec", <<>>))>>) }

\* The records given to generate: any of the fields x, y, z in any order.
ShapeRecords ==
    UNION {{[i \in 1..Len(q) |-> FieldValue(q[i], val[i])] : val \in [1..Len(q) -> ShapeValues]} :
              q \in UNION {Orders(S) : S \in SUBSET {NameX, NameY, NameZ}}}

\* The Field Maps a Deserializer is built over in flow "requests": empty, x
\* with a value of any of the 13 types (7, 1.5 or "a"; a u64 and a u128 also
\* beyond the ranges of u16 and u32), and the same with y.
RequestValues ==
    {SegmentValue(T, IntDatum(FALSE, <<"7">>)) : T \in IntTypes}
    \cup {SegmentValue(T, IntDatum(FALSE, n)) :
             T \in {"U64", "U128"}, n \in {Succ(IntMax["U16"]), Succ(IntMax["U32"])}}
    \cup {SegmentValue(T, FloatFin(FALSE, <<"1", "5">>, -1)) : T \in FloatTypes}
    \cup {SegmentValue("String", TextDatum(<<"a">>))}
RequestMaps ==
    {EmptyMap}
    \cup {insert(EmptyMap, NameX, v) : v \in RequestValues}
    \cup {insert(insert(EmptyMap, NameX, v), NameY, SegmentValue("String", TextDatum(<<"a">>))) :
             v \in RequestValues}

\* The handler of each scalar type.
ScalarRequest == [T \in SegmentType |->
    CASE T = "I8" -> "deserialize_i8"
      [] T = "I16" -> "deserialize_i16"
      [] T = "I32" -> "deserialize_i32"
      [] T = "I64" -> "deserialize_i64"
      [] T = "I128" -> "deserialize_i128"
      [] T = "U8" -> "deserialize_u8"
      [] T = "U16" -> "deserialize_u16"
      [] T = "U32" -> "deserialize_u32"
      [] T = "U64" -> "deserialize_u64"
      [] T = "U128" -> "deserialize_u128"
      [] T = "F32" -> "deserialize_f32"
      [] T = "F64" -> "deserialize_f64"
      [] T = "String" -> "deserialize_string"]

BridgeInit ==
    /\ \/ /\ flow = "parse"
          /\ schema \in ShapeSchemas
          /\ path \in ShapePaths(schema)
          /\ target \in ShapeTargets
          /\ record = <<>>
          /\ pc = "parse_path_generic"
          /\ deserializer = Deserializer(EmptyMap, DStart)
          /\ held = <<>>
       \/ /\ flow = "generate"
          /\ schema \in ShapeSchemas
          /\ record \in ShapeRecords
          /\ target = <<>>
          /\ path = <<>>
          /\ pc = "generate_path"
          /\ deserializer = Deserializer(EmptyMap, DStart)
          /\ held = <<>>
       \/ /\ flow = "requests"
          /\ schema = Schema_new
          /\ path = <<>>
          /\ target = <<>>
          /\ record = <<>>
          /\ pc = "requests"
          /\ deserializer \in {Deserializer(m, DStart) : m \in RequestMaps}
          /\ held = <<>>
       \/ /\ flow = "serialize"
          /\ schema = Schema_new
          /\ path = <<>>
          /\ target = <<>>
          /\ record = <<>>
          /\ pc = "serialize"
          /\ deserializer = Deserializer(EmptyMap, DStart)
          /\ held = <<"Serializer">>
    /\ pos = 0
    /\ path_values = EmptyMap
    /\ generic_parsed_path_value = Pending
    /\ fields = EmptyMap
    /\ parsed = Pending
    /\ serializer = Serializer(EmptyMap, SStart)
    /\ fi = 0
    /\ generated_path = <<>>
    /\ gi = 0
    /\ generated = Pending
    /\ NoDsl
    /\ request = "none"
    /\ response = Pending
    /\ NoSecondCall

\* What a request of flow "requests" leaves alone.
requestFrame == <<flow, schema, path, target, record, pc, pos, path_values,
                  generic_parsed_path_value, fields, parsed, generateVars, dslVars, held,
                  suspended>>

\* The consumer calls deserialize_struct.
request_deserialize_struct ==
    /\ pc = "requests"
    /\ LET out == deserialize_struct(deserializer)
       IN  deserializer' = out.de /\ response' = out.res
    /\ request' = "deserialize_struct"
    /\ UNCHANGED requestFrame

\* The consumer calls deserialize_map.
request_deserialize_map ==
    /\ pc = "requests"
    /\ LET out == deserialize_map(deserializer)
       IN  deserializer' = out.de /\ response' = out.res
    /\ request' = "deserialize_map"
    /\ UNCHANGED requestFrame

\* The consumer calls next_key_seed.
request_next_key_seed ==
    /\ pc = "requests"
    /\ \E key \in IF DOMAIN deserializer.generic_parsed_path = {}
                   THEN {<<>>} ELSE DOMAIN deserializer.generic_parsed_path :
          LET out == next_key_seed(deserializer, key)
          IN  deserializer' = out.de /\ response' = out.res
    /\ request' = "next_key_seed"
    /\ UNCHANGED requestFrame

\* The consumer calls next_value_seed with the seed of some type.
request_next_value_seed ==
    /\ pc = "requests"
    /\ \E T \in SegmentType \cup {"Vec", "Option", "Struct", "IgnoredAny"} :
          LET out == next_value_seed(deserializer, T)
          IN  deserializer' = out.de /\ response' = out.res
    /\ request' = "next_value_seed"
    /\ UNCHANGED requestFrame

\* The consumer calls deserialize_identifier.
request_deserialize_identifier ==
    /\ pc = "requests"
    /\ LET out == deserialize_identifier(deserializer)
       IN  deserializer' = out.de /\ response' = out.res
    /\ request' = "deserialize_identifier"
    /\ UNCHANGED requestFrame

\* The consumer calls the handler of a scalar type, with the visitor of
\* that type.
request_deserialize_scalar ==
    /\ pc = "requests"
    /\ \E T \in SegmentType :
          LET out == deserialize_scalar(deserializer, T)
          IN  deserializer' = out.de /\ response' = out.res /\ request' = ScalarRequest[T]
    /\ UNCHANGED requestFrame

\* The consumer calls deserialize_ignored_any.
request_deserialize_ignored_any ==
    /\ pc = "requests"
    /\ LET out == deserialize_ignored_any(deserializer)
       IN  deserializer' = out.de /\ response' = out.res
    /\ request' = "deserialize_ignored_any"
    /\ UNCHANGED requestFrame

\* The consumer calls the handler of a shape the Deserializer does not take.
request_deserialize_not_supported ==
    /\ pc = "requests"
    /\ \E req \in DOMAIN DeNotSupported :
          LET out == deserialize_not_supported(deserializer, req)
          IN  deserializer' = out.de /\ response' = out.res /\ request' = req
    /\ UNCHANGED requestFrame

\* Flow "serialize": a Serialize implementation of any kind makes requests
\* of the Serializer of generate_path.  Every request of the Serializer
\* trait takes the Serializer by value and a SerializeStruct is only handed
\* out by serialize_struct, so a serialize call holds a Serializer it has
\* not used yet or the SerializeStruct it got for it: held lists the calls
\* in progress, the record's first, then the one of the field value being
\* serialized, and so on.  Records nest at most MaxDepth deep.
MaxDepth == 2

\* The scalars a consumer supplies and the names of its fields.
SerializeValues ==
    { SegmentValue("U8", IntDatum(FALSE, <<"7">>)),
      SegmentValue("U64", IntDatum(FALSE, <<"1", "0">>)),
      SegmentValue("String", TextDatum(<<"a">>)) }
SerializeNames == {NameX, NameY}

\* The request a value of each tag makes.
SerializeRequest ==
    [tag \in SegmentType \cup DOMAIN SerNotSupported |->
        CASE tag = "I8" -> "serialize_i8"
          [] tag = "I16" -> "serialize_i16"
          [] tag = "I32" -> "serialize_i32"
          [] tag = "I64" -> "serialize_i64"
          [] tag = "I128" -> "serialize_i128"
          [] tag = "U8" -> "serialize_u8"
          [] tag = "U16" -> "serialize_u16"
          [] tag = "U32" -> "serialize_u32"
          [] tag = "U64" -> "serialize_u64"
          [] tag = "U128" -> "serialize_u128"
          [] tag = "F32" -> "serialize_f32"
          [] tag = "F64" -> "serialize_f64"
          [] tag = "String" -> "serialize_str"
          [] tag = "bool" -> "serialize_bool"
          [] tag = "char" -> "serialize_char"
          [] tag = "Vec" -> "serialize_seq"
          [] tag = "Tuple" -> "serialize_tuple"
          [] tag = "None" -> "serialize_none"
          [] tag = "Some" -> "serialize_some"
          [] tag = "Unit" -> "serialize_unit"]

\* What a request of flow "serialize" leaves alone.
serializeFrame == <<flow, schema, path, target, record, pc, parseVars, fi, generated_path,
                    gi, generated, dslVars, suspended>>

\* What the innermost serialize call in progress holds.
Holds(what) == pc = "serialize" /\ held # <<>> /\ held[Len(held)] = what
Returned == SubSeq(held, 1, Len(held) - 1)

\* A scalar serializes itself: serialize_<type>(v), and its serialize call
\* returns the Result (to serialize_field, which returns it, when the
\* scalar is the value of a field).
request_serialize_scalar ==
    /\ Holds("Serializer")
    /\ \E v \in SerializeValues :
          LET out == serialize_scalar(serializer, v)
          IN  serializer' = out.ser /\ response' = out.res /\ request' = SerializeRequest[v.tag]
    /\ held' = Returned
    /\ UNCHANGED serializeFrame

\* A value of a shape the Serializer does not take serializes itself.
request_serialize_not_supported ==
    /\ Holds("Serializer")
    /\ \E tag \in DOMAIN SerNotSupported :
          LET out == serialize_not_supported(serializer, tag)
          IN  serializer' = out.ser /\ response' = out.res /\ request' = SerializeRequest[tag]
    /\ held' = Returned
    /\ UNCHANGED serializeFrame

\* A record begins to serialize itself: serialize_struct, which hands out
\* the SerializeStruct.
request_serialize_struct ==
    /\ Holds("Serializer")
    /\ Cardinality({i \in 1..Len(held) : held[i] = "SerializeStruct"}) < MaxDepth
    /\ LET out == serialize_struct(serializer)
       IN  serializer' = out.ser /\ response' = out.res
    /\ request' = "serialize_struct"
    /\ held' = [held EXCEPT ![Len(held)] = "SerializeStruct"]
    /\ UNCHANGED serializeFrame

\* A record supplies a field: serialize_field(key, value) matches on the
\* state and, past the match, calls value.serialize with the Serializer;
\* the Result of that call is the one serialize_field returns.
request_serialize_field ==
    /\ Holds("SerializeStruct")
    /\ \E key \in SerializeNames :
          LET out == serialize_field_state(serializer, key)
          IN  /\ serializer' = out.ser
              /\ IF out.res.ok
                 THEN response' = Pending /\ held' = Append(held, "Serializer")
                 ELSE response' = out.res /\ held' = held
    /\ request' = "serialize_field"
    /\ UNCHANGED serializeFrame

\* A record ends: SerializeStruct::end takes the SerializeStruct.
request_serialize_end ==
    /\ Holds("SerializeStruct")
    /\ LET out == serialize_end(serializer)
       IN  serializer' = out.ser /\ response' = out.res
    /\ request' = "end"
    /\ held' = Returned
    /\ UNCHANGED serializeFrame

BridgeNext ==
    \/ parse_path_generic_step
    \/ parse_path_generic_return
    \/ parse_path
    \/ visit_map_next_key
    \/ visit_map_next_value
    \/ generate_path
    \/ serialize_field_step
    \/ serialize_struct_end
    \/ assemble_step
    \/ assemble_return
    \/ after_parse
    \/ after_generate
    \/ request_deserialize_struct
    \/ request_deserialize_map
    \/ request_next_key_seed
    \/ request_next_value_seed
    \/ request_deserialize_identifier
    \/ request_deserialize_scalar
    \/ request_deserialize_ignored_any
    \/ request_deserialize_not_supported
    \/ request_serialize_scalar
    \/ request_serialize_not_supported
    \/ request_serialize_struct
    \/ request_serialize_field
    \/ request_serialize_end

BridgeSpec == BridgeInit /\ [][BridgeNext]_vars

(***************************************************************************)
(* Concurrent calls: a parse call and a generate call against one Schema,  *)
(* each on its own thread with its own locals (parse_path_generic's        *)
(* path_values, parse_path's Deserializer, generate_path's Serializer and  *)
(* String); the Schema is borrowed by both.  pc is the position of the     *)
(* call that takes the next step, suspended that of the other.             *)
(***************************************************************************)
ConcTargets ==
    { <<>>,
      <<Field(NameX, "U8")>>,
      <<Field(NameX, "String")>>,
      <<Field(NameY, "String"), Field(NameX, "U8")>> }

ConcRecords ==
    { <<>>,
      <<FieldValue(NameX, SegmentValue("U8", IntDatum(FALSE, <<"7">>)))>>,
      <<FieldValue(NameY, SegmentValue("String", TextDatum(<<"a">>))),
        FieldValue(NameX, SegmentValue("U8", IntDatum(FALSE, <<"7">>)))>>,
      <<FieldValue(NameX, SegmentValue("U8", IntDatum(FALSE, <<"7">>))),
        FieldValue(NameY, Shape("Vec", <<>>))>> }

ConcInit ==
    /\ flow = "concurrent"
    /\ schema \in ShapeSchemas
    /\ path \in ShapePaths(schema)
    /\ target \in ConcTargets
    /\ record \in ConcRecords
    /\ \/ pc = "parse_path_generic" /\ suspended = "generate_path"
       \/ pc = "generate_path" /\ suspended = "parse_path_generic"
    /\ InitCalls
    /\ NoDsl
    /\ NoRequest

\* The scheduler takes the running call off and puts the other one on.
switch ==
    /\ suspended # "done"
    /\ pc' = suspended
    /\ suspended' = pc
    /\ UNCHANGED <<flow, schema, path, target, record, parseVars, generateVars, dslVars,
                   requestVars>>

ConcNext ==
    \/ parse_path_generic_step
    \/ parse_path_generic_return
    \/ parse_path
    \/ visit_map_next_key
    \/ visit_map_next_value
    \/ generate_path
    \/ serialize_field_step
    \/ serialize_struct_end
    \/ assemble_step
    \/ assemble_return
    \/ after_parse
    \/ after_generate
    \/ switch

ConcSpec == ConcInit /\ [][ConcNext]_vars

(***************************************************************************)
(* Properties                                                              *)
(***************************************************************************)
\* The segments of the path given to parse and the text before its first "/".
Segs == PathSegments(path)
FirstToken == Head(Split(path))

\* parse_path_generic, parse and generate have returned.
GenericReturned == generic_parsed_path_value.ok \/ generic_parsed_path_value.err # "Pending"
ParseReturned == parsed.ok \/ parsed.err # "Pending"
GenerateReturned == generated.ok \/ generated.err # "Pending"

\* The canonical decimal texts: an integer is "0" or an optional "-" and
\* digits without leading zero; a float is NaN, inf, -inf, or an optional
\* "-", digits without needless leading zero and, optionally, "." and digits
\* not ending in "0"; no "+" and no exponent.
NoLeadingZero(ds) == ds # <<>> /\ AllDigits(ds) /\ (Len(ds) = 1 \/ ds[1] # "0")
Unsigned(s) == IF s # <<>> /\ Head(s) = "-" THEN Tail(s) ELSE s
CanonicalInt(s) == NoLeadingZero(Unsigned(s)) /\ s # <<"-", "0">>
CanonicalFloat(s) ==
    \/ s \in {<<"N", "a", "N">>, <<"i", "n", "f">>, <<"-", "i", "n", "f">>}
    \/ LET body == Unsigned(s)
           dots == {i \in 1..Len(body) : body[i] = "."}
       IN  \/ NoLeadingZero(body)
           \/ \E d \in dots :
                 /\ NoLeadingZero(SubSeq(body, 1, d - 1))
                 /\ d < Len(body)
                 /\ AllDigits(SubSeq(body, d + 1, Len(body)))
                 /\ body[Len(body)] # "0"
CanonicalText(s, T) ==
    IF T \in IntTypes THEN CanonicalInt(s)
    ELSE IF T \in FloatTypes THEN CanonicalFloat(s) ELSE TRUE

\* The positions the path and the schema share.
Shared == 1..(IF Len(Segs) <= Len(schema) THEN Len(Segs) ELSE Len(schema))
CanonicalPath ==
    \A i \in Shared :
        schema[i].kind = "Value" => CanonicalText(Segs[i], schema[i].segment_type)

\* The target declares exactly the schema's value names with their types.
TargetMatches ==
    /\ {target[i].name : i \in 1..Len(target)} = ValueNames(schema)
    /\ \A i \in 1..Len(target) : target[i].segment_type \in DeclaredTypes(schema, target[i].name)

\* The path has an empty text before its first "/" and one segment per
\* descriptor.
FullPath == FirstToken = <<>> /\ Len(Segs) = Len(schema)

C1Matches ==
    /\ pc = "done" /\ flow = "parse_generate"
    /\ DistinctNames(schema)
    /\ parsed.ok
    /\ TargetMatches
    /\ CanonicalPath

\* C1 as stated: for a schema with distinct names and a path in canonical
\* form that parses into a record of the schema's names and types,
\* generate(parse(path)) is the path.
C1_AnyMatchingPath == C1Matches => (generated.ok /\ generated.value = path)

\* C1 amended: the same for a path that has nothing before its first "/" and
\* exactly one segment per descriptor of the schema.
C1_RoundTripParseGenerate ==
    (C1Matches /\ FullPath) => (generated.ok /\ generated.value = path)

\* A full canonical path with a literal and a negative integer came back.
C1_Witness ==
    /\ C1Matches /\ FullPath
    /\ Len(schema) = 2 /\ schema[1].kind = "Literal"
    /\ schema[2].segment_type = "I64" /\ Segs[2] = <<"-", "1">>
    /\ generated.ok /\ generated.value = path

\* The record declares exactly the schema's value names, each holding a value
\* of the declared type; no text value holds a "/".
FieldNames(rec) == {rec[i].name : i \in 1..Len(rec)}
HasSlash(t) == \E i \in 1..Len(t) : t[i] = "/"
RecordMatches ==
    /\ FieldNames(record) = ValueNames(schema)
    /\ \A i \in 1..Len(record) :
          /\ record[i].value.tag \in DeclaredTypes(schema, record[i].name)
          /\ record[i].value.tag = "String" => ~HasSlash(record[i].value.v.digs)

\* PartialEq of two records of one type: field by field.
RecordEq(a, b) ==
    /\ Len(a) = Len(b)
    /\ \A i \in 1..Len(a) : a[i].name = b[i].name /\ ScalarEq(a[i].value, b[i].value)

C2Given ==
    /\ pc = "done" /\ flow = "generate_parse"
    /\ DistinctNames(schema)
    /\ RecordMatches

C2RoundTrip == generated.ok /\ parsed.ok /\ RecordEq(parsed.value, record)

\* C2: for a schema with distinct names and a record of exactly the
\* schema's names and types, text values without "/", generate succeeds and
\* parse(generate(record)) equals the record.
C2_AnyRecord == C2Given => C2RoundTrip

\* The value a canonical text denotes, read off its characters.
ValueOfFloatText(s) ==
    IF s = <<"N", "a", "N">> THEN FloatNaN
    ELSE IF Unsigned(s) = <<"i", "n", "f">> THEN FloatInf(Head(s) = "-")
    ELSE LET body == Unsigned(s)
             dot  == IndexOf(body, ".", 1)
             ip   == IF dot = 0 THEN body ELSE SubSeq(body, 1, dot - 1)
             fp   == IF dot = 0 THEN <<>> ELSE SubSeq(body, dot + 1, Len(body))
             all  == StripAllLeadingZeros(ip \o fp)
             digs == StripTrailingZeros(all)
         IN  FloatFin(Head(s) = "-", digs,
                      IF digs = <<>> THEN 0 ELSE Len(all) - Len(digs) - Len(fp))
ValueOfText(s, T) ==
    IF T \in IntTypes
    THEN [kind |-> "int", neg |-> Head(s) = "-", digs |-> Unsigned(s), e10 |-> 0]
    ELSE IF T \in FloatTypes THEN ValueOfFloatText(s)
    ELSE [kind |-> "text", neg |-> FALSE, digs |-> s, e10 |-> 0]

\* An integer literal: an optional "+" or "-" and digits; its magnitude.
IntLiteral(s) ==
    /\ s # <<>>
    /\ IF Head(s) \in {"+", "-"} THEN Tail(s) # <<>> /\ AllDigits(Tail(s)) ELSE AllDigits(s)
Magnitude(s) == StripLeadingZeros(IF Head(s) \in {"+", "-"} THEN Tail(s) ELSE s)

\* The integer literal lies within the range of integer type T.
InRange(s, T) ==
    IF Head(s) = "-"
    THEN T \in SignedTypes /\ MagLeq(Magnitude(s), IntMinMag[T])
    ELSE MagLeq(Magnitude(s), IntMax[T])

\* The text is the canonical text of a value of type T.
CanonicalValueText(s, T) == CanonicalText(s, T) /\ (T \in IntTypes => InRange(s, T))

FieldNamed(rec, n) == rec[CHOOSE i \in 1..Len(rec) : rec[i].name = n]

\* parse has returned for a path of one segment per descriptor whose literal
\* segments equal their literals and whose value segments are canonical
\* texts of values of the declared types, into a target of the schema's
\* names and types.
C3Given ==
    /\ ParseReturned
    /\ DistinctNames(schema)
    /\ Len(Segs) = Len(schema)
    /\ TargetMatches
    /\ \A i \in 1..Len(schema) :
          IF schema[i].kind = "Literal" THEN Segs[i] = schema[i].literal
          ELSE CanonicalValueText(Segs[i], schema[i].segment_type)

C3Yields ==
    /\ parsed.ok
    /\ \A i \in 1..Len(schema) :
          schema[i].kind = "Value" =>
              ScalarEq(FieldNamed(parsed.value, schema[i].name).value,
                       SegmentValue(schema[i].segment_type,
                                    ValueOfText(Segs[i], schema[i].segment_type)))

\* C3: for each scalar type T, the canonical text of a value v, declared as
\* T and parsed into a field of type T, yields a field equal to v.
C3_EveryValue == C3Given => C3Yields

\* The text of one descriptor in a generated path: the literal, or the
\* rendering of the record's field of the descriptor's name.
SegmentOf(d) ==
    IF d.kind = "Literal" THEN d.literal ELSE Render(FieldNamed(record, d.name).value)

\* "/" and the text of each of the first n descriptors, in schema order.
RECURSIVE PathOfDescriptors(_)
PathOfDescriptors(n) ==
    IF n = 0 THEN <<>> ELSE PathOfDescriptors(n - 1) \o <<"/">> \o SegmentOf(schema[n])

\* C4: when generate succeeds its output is, over the descriptors in schema
\* order, "/" and the literal or "/" and the rendering of the field of that
\* name, whatever the order in which the record declares its fields.
C4_GenerateAssembly == generated.ok => generated.value = PathOfDescriptors(Len(schema))

\* A record that declares its fields in the reverse of the schema's order
\* was generated.
C4_Witness ==
    /\ generated.ok /\ generated.value = PathOfDescriptors(Len(schema))
    /\ Len(schema) = 2 /\ Len(record) = 2
    /\ schema[1].kind = "Value" /\ schema[2].kind = "Value"
    /\ record[1].name = schema[2].name /\ record[2].name = schema[1].name

\* The positions of the Value descriptors whose name the record lacks.
MissingAt == {i \in 1..Len(schema) :
                 schema[i].kind = "Value" /\ schema[i].name \notin FieldNames(record)}

\* C5: if the record lacks the name of a Value descriptor, generate fails
\* with MissingField naming the first such descriptor in schema order, and
\* returns no path.
C5_MissingField ==
    (GenerateReturned /\ MissingAt # {}) =>
        /\ ~generated.ok
        /\ generated.value = <<>>
        /\ generated.err = "MissingField"
        /\ generated.got = schema[Least(MissingAt)].name

\* The record lacked both names of the schema; the error names the first.
C5_Witness ==
    /\ GenerateReturned /\ Cardinality(MissingAt) = 2
    /\ generated.err = "MissingField" /\ generated.got = schema[1].name

\* The shared positions at which the segment does not match its descriptor.
Fails(i) ==
    IF schema[i].kind = "Literal" THEN Segs[i] # schema[i].literal
    ELSE ~ParseSegment(Segs[i], schema[i].segment_type).ok
Bad == {i \in Shared : Fails(i)}

\* The error of a failing position.
ErrorAt(i) ==
    IF schema[i].kind = "Literal"
    THEN [err |-> "IncorrectSegment", got |-> Segs[i], expected |-> schema[i].literal]
    ELSE [err |-> IF schema[i].segment_type \in IntTypes
                  THEN "ParseIntError" ELSE "ParseFloatError",
          got |-> <<>>, expected |-> <<>>]
IsError(r, e) ==
    ~r.ok /\ r.value = <<>> /\ r.err = e.err /\ r.got = e.got /\ r.expected = e.expected

\* C6: when the first position that fails is a Literal, parse fails with
\* IncorrectSegment whose got is the segment and whose expected is the
\* literal.
C6_LiteralMismatch ==
    (ParseReturned /\ Bad # {} /\ schema[Least(Bad)].kind = "Literal") =>
        /\ ~parsed.ok
        /\ parsed.err = "IncorrectSegment"
        /\ parsed.got = Segs[Least(Bad)]
        /\ parsed.expected = schema[Least(Bad)].literal

\* A literal in second place, after a value that parsed, did not match.
C6_Witness ==
    /\ ParseReturned /\ Bad = {2}
    /\ schema[1].kind = "Value" /\ schema[2].kind = "Literal"
    /\ parsed.err = "IncorrectSegment" /\ parsed.got = Segs[2] /\ parsed.got # parsed.expected

\* The integer an integer literal denotes.
IntOfLiteral(s) ==
    [kind |-> "int",
     neg  |-> Head(s) = "-" /\ Magnitude(s) # <<"0">>,
     digs |-> Magnitude(s),
     e10  |-> 0]

\* C7: at an integer descriptor, a text that is no value of the declared
\* type (a negative literal against an unsigned type and a literal outside
\* the range of the type among them) fails with ParseIntError, nothing is
\* stored for the field and no map is returned; an integer literal within
\* the range of the type is stored as its value, tagged with the type.
C7_NumericBoundary ==
    GenericReturned =>
        \A i \in 1..pos :
            (schema[i].kind = "Value" /\ schema[i].segment_type \in IntTypes) =>
            LET T == schema[i].segment_type
                n == schema[i].name
            IN  IF ~(IntLiteral(Segs[i]) /\ InRange(Segs[i], T))
                THEN /\ pos = i
                     /\ ~generic_parsed_path_value.ok
                     /\ generic_parsed_path_value.err = "ParseIntError"
                     /\ generic_parsed_path_value.value = <<>>
                     /\ DistinctNames(schema) => n \notin DOMAIN path_values
                     /\ ParseReturned => (~parsed.ok /\ parsed.err = "ParseIntError")
                ELSE /\ generic_parsed_path_value.ok \/ pos > i
                     /\ DistinctNames(schema) =>
                            /\ n \in DOMAIN path_values
                            /\ path_values[n] = SegmentValue(T, IntOfLiteral(Segs[i]))
                     /\ (DistinctNames(schema) /\ generic_parsed_path_value.ok) =>
                            generic_parsed_path_value.value[n]
                                = SegmentValue(T, IntOfLiteral(Segs[i]))

\* "-1" was stored as an I128 and then refused as a U64.
C7_Witness ==
    /\ GenericReturned /\ pos = 2
    /\ schema[1].kind = "Value" /\ schema[1].segment_type = "I128"
    /\ schema[2].kind = "Value" /\ schema[2].segment_type = "U64"
    /\ Segs[1] = <<"-", "1">> /\ Segs[2] = <<"-", "1">>
    /\ path_values[schema[1].name] = SegmentValue("I128", IntDatum(TRUE, <<"1">>))
    /\ generic_parsed_path_value.err = "ParseIntError"

\* C8: when some shared position fails, the matcher returns the error of
\* the leftmost failing position, has drawn no pair after it, and returns
\* no map; parse returns that error and no record.
C8_FirstErrorWins ==
    (GenericReturned /\ Bad # {}) =>
        /\ pos = Least(Bad)
        /\ IsError(generic_parsed_path_value, ErrorAt(Least(Bad)))
        /\ ParseReturned => IsError(parsed, ErrorAt(Least(Bad)))

\* Both segments of a path fail; the error is the first one's.
C8_Witness ==
    /\ ParseReturned /\ Bad = {1, 2}
    /\ pos = 1
    /\ schema[1].kind = "Literal" /\ schema[2].kind = "Value"
    /\ parsed.err = "IncorrectSegment"

\* The matcher's result on the segments segs, all of them within the schema.
RECURSIVE MatchAll(_, _)
MatchAll(segs, n) ==
    IF n = 0 THEN Ok(EmptyMap)
    ELSE LET r == MatchAll(segs, n - 1)
         IN  IF r.ok THEN MatchSegment(segs[n], schema[n], r.value) ELSE r

SameResult(a, b) ==
    /\ a.ok = b.ok
    /\ a.value = b.value
    /\ a.err = b.err /\ a.got = b.got /\ a.expected = b.expected

\* C9: when no shared position fails the matcher succeeds after exactly
\* min(segments, descriptors) pairs; its only errors are those of a failing
\* position; a successful map holds exactly the fields of the descriptors
\* reached; and a path longer than the schema gives the result of the path
\* cut to the schema's length.
C9_LengthAsymmetry ==
    GenericReturned =>
        /\ Bad = {} =>
              /\ generic_parsed_path_value.ok
              /\ pos = IF Len(Segs) <= Len(schema) THEN Len(Segs) ELSE Len(schema)
        /\ ~generic_parsed_path_value.ok =>
              /\ Bad # {}
              /\ generic_parsed_path_value.err
                    \in {"IncorrectSegment", "ParseIntError", "ParseFloatError"}
        /\ generic_parsed_path_value.ok =>
              DOMAIN generic_parsed_path_value.value
                  = {schema[i].name : i \in {j \in Shared : schema[j].kind = "Value"}}
        /\ Len(Segs) > Len(schema) =>
              SameResult(generic_parsed_path_value,
                         MatchAll(SubSeq(Segs, 1, Len(schema)), Len(schema)))

\* A path one segment short of a schema that ends in a literal matched.
C9_Witness ==
    /\ GenericReturned /\ generic_parsed_path_value.ok
    /\ Len(schema) = 2 /\ Len(Segs) = 1 /\ pos = 1
    /\ schema[1].kind = "Value" /\ schema[2].kind = "Literal"
    /\ DOMAIN generic_parsed_path_value.value = {schema[1].name}

\* C10: for a path of one segment per descriptor, every one matching, and
\* distinct names, the matcher returns a map with exactly one entry per
\* Value descriptor, under its name, holding the parsed value tagged with
\* the declared type, and nothing else.
C10_MatcherResult ==
    (GenericReturned /\ Len(Segs) = Len(schema) /\ Bad = {} /\ DistinctNames(schema)) =>
        /\ generic_parsed_path_value.ok
        /\ DOMAIN generic_parsed_path_value.value = ValueNames(schema)
        /\ Cardinality(DOMAIN generic_parsed_path_value.value)
              = Cardinality({i \in 1..Len(schema) : schema[i].kind = "Value"})
        /\ \A i \in 1..Len(schema) :
              schema[i].kind = "Value" =>
                  /\ generic_parsed_path_value.value[schema[i].name].tag
                        = schema[i].segment_type
                  /\ generic_parsed_path_value.value[schema[i].name]
                        = ParseSegment(Segs[i], schema[i].segment_type).value

\* A literal and a value matched; the map holds the value alone.
C10_Witness ==
    /\ GenericReturned /\ Len(Segs) = Len(schema) /\ Bad = {} /\ DistinctNames(schema)
    /\ Len(schema) = 2 /\ schema[1].kind = "Literal" /\ schema[2].kind = "Value"
    /\ schema[1].literal = schema[2].name
    /\ Cardinality(DOMAIN generic_parsed_path_value.value) = 1

(***************************************************************************)
(* Schema construction (PathSpec)                                          *)
(***************************************************************************)
\* The segments of the pattern given to Schema::path.
PatternSegs == PathSegments(path)

\* Schema::path is over, by a return or by a panic; the builder chain is over.
PathOver == pc \in {"path_returned", "panicked"}
BuilderOver == Len(built) = Len(builder_calls)

\* C11  DSL equals builder.  For every sequence of descriptors, the builder
\* chain appends one descriptor per call and leaves the earlier ones as
\* they are, and Schema::path on the pattern written from the descriptors
\* returns the Schema the chain has built.
C11_DslEqualsBuilder ==
    flow = "written" =>
        /\ built = SubSeq(builder_calls, 1, Len(built))
        /\ (PathOver /\ BuilderOver) =>
              /\ pc = "path_returned"
              /\ schema_result.ok
              /\ schema_result.value = built

\* A bracketed segment: "<", a content without ">", ">", and whatever
\* follows.  The content is what stands inside the brackets.
Bracketed(t) == Len(t) >= 2 /\ t[1] = "<" /\ \E i \in 2..Len(t) : t[i] = ">"
Content(t) == SubSeq(t, 2, Least({i \in 2..Len(t) : t[i] = ">"}) - 1)
Colons(c) == Cardinality({i \in 1..Len(c) : c[i] = ":"})

\* C12  Default type.  Every bracketed segment Schema::path has taken whose
\* content holds no ":" has pushed a Value descriptor named by the whole
\* content, of type String.
C12_DefaultType ==
    \A i \in 1..path_i :
        (Bracketed(PatternSegs[i]) /\ Colons(Content(PatternSegs[i])) = 0) =>
            /\ Len(schema) >= i
            /\ schema[i] = Value(Content(PatternSegs[i]), "String")

C12_Witness ==
    /\ path_i = 2
    /\ Bracketed(PatternSegs[2]) /\ Colons(Content(PatternSegs[2])) = 0
    /\ Len(Content(PatternSegs[2])) = 3
    /\ Len(schema) = 2 /\ schema[2].segment_type = "String"
    /\ schema_result = Pending

\* C13  Too many separators.  A bracketed segment whose content holds more
\* than one ":" ends Schema::path when it is taken: the call returns the
\* SyntaxError that carries the segment and the message, and no Schema.
C13_TooManySeparators ==
    \A i \in 1..path_i :
        (Bracketed(PatternSegs[i]) /\ Colons(Content(PatternSegs[i])) > 1) =>
            /\ i = path_i
            /\ pc = "path_returned"
            /\ ~schema_result.ok
            /\ schema_result.err = "SyntaxError"
            /\ schema_result.got = PatternSegs[i]
            /\ schema_result.expected = "Expected at most one ':' in path segment"
            /\ schema_result.value = <<>>

C13_Witness ==
    /\ path_i = 2
    /\ Len(schema) = 1
    /\ Bracketed(PatternSegs[2]) /\ Colons(Content(PatternSegs[2])) = 2
    /\ schema_result.err = "SyntaxError"

\* The name and the tag of a content with one ":".
NameOf(c) == SubSeq(c, 1, IndexOf(c, ":", 1) - 1)
TagOf(c) == SubSeq(c, IndexOf(c, ":", 1) + 1, Len(c))
Recognized(tag) == \E T \in SegmentType : TypeTag[T] = tag

\* C14  Unrecognized type tag.  A bracketed segment <name:tag> with one ":"
\* pushes Value(name, T) when tag is the token of the scalar type T, one of
\* the 13; with any other tag it ends Schema::path, which returns
\* UnrecognizedType citing the tag.
C14_TypeTag ==
    \A i \in 1..path_i :
        (Bracketed(PatternSegs[i]) /\ Colons(Content(PatternSegs[i])) = 1) =>
            LET name == NameOf(Content(PatternSegs[i]))
                tag  == TagOf(Content(PatternSegs[i]))
            IN  IF Recognized(tag)
                THEN /\ Len(schema) >= i
                     /\ schema[i] = Value(name, CHOOSE T \in SegmentType : TypeTag[T] = tag)
                     /\ (i = path_i => schema_result.err \in {"", "Pending"})
                ELSE /\ i = path_i
                     /\ pc = "path_returned"
                     /\ ~schema_result.ok
                     /\ schema_result.err = "UnrecognizedType"
                     /\ schema_result.got = tag
                     /\ schema_result.value = <<>>

C14_Witness ==
    /\ path_i = 2
    /\ Bracketed(PatternSegs[1]) /\ Colons(Content(PatternSegs[1])) = 1
    /\ Recognized(TagOf(Content(PatternSegs[1])))
    /\ Bracketed(PatternSegs[2]) /\ Colons(Content(PatternSegs[2])) = 1
    /\ TagOf(Content(PatternSegs[2])) = <<"s", "t", "r", "i", "n", "g">>
    /\ schema_result.err = "UnrecognizedType"

\* C15  Errors are values.  For every pattern, Schema::path returns to its
\* caller a Schema or a PathSchemaParseError: it never aborts.
C15_ErrorsAreValues ==
    /\ pc # "panicked"
    /\ pc = "path_returned" => (schema_result.ok \/ schema_result.err \in {"SyntaxError", "UnrecognizedType"})

(***************************************************************************)
(* generate: the leading "/" (Spec)                                        *)
(***************************************************************************)
\* C18 as stated: whenever generate succeeds, the path it returns begins
\* with "/".
C18_EverySchema ==
    (GenerateReturned /\ generated.ok) =>
        (generated.value # <<>> /\ Head(generated.value) = "/")

\* C18  Leading slash.  Whenever generate succeeds against a Schema of at
\* least one descriptor, the path it returns begins with "/"; against the
\* empty Schema it returns the empty text.
C18_LeadingSlash ==
    (GenerateReturned /\ generated.ok) =>
        IF Len(schema) = 0 THEN generated.value = <<>>
        ELSE generated.value # <<>> /\ Head(generated.value) = "/"

C18_Witness ==
    /\ flow = "generate_parse"
    /\ GenerateReturned /\ generated.ok
    /\ Len(schema) = 2 /\ schema[1].kind = "Value"
    /\ Len(record) = 2 /\ record[1].name # schema[1].name
    /\ Head(generated.value) = "/"


(***************************************************************************)
(* C20: Deserializer, entering a record                                    *)
(***************************************************************************)
\* The step is a request of the consumer of flow "requests".
Requested(names) == pc = "requests" /\ request' \in names

\* C20: a deserialize_struct or deserialize_map request made in state Start
\* succeeds and leaves the Deserializer in state Map over the same Field
\* Map; made in any other state (Map, MapKey, MapValue, End) it returns
\* InvalidDeserializerState with expected "Start" and got the state the
\* Deserializer was in, and leaves the Deserializer as it was.  parse_path
\* itself enters the record from Start, and the record of a field of the
\* target is entered from MapValue.
C20_EnterRecord ==
    /\ [][Requested({"deserialize_struct", "deserialize_map"}) =>
             IF deserializer.state.st = "Start"
             THEN /\ response' = Ok(<<>>)
                  /\ deserializer' = Deserializer(deserializer.generic_parsed_path, DMap)
             ELSE /\ response' = InvalidDeserializerState("Start", deserializer.state)
                  /\ deserializer.state.st \in {"Map", "MapKey", "MapValue", "End"}
                  /\ deserializer' = deserializer]_vars
    /\ [][(pc = "parse_path" /\ generic_parsed_path_value.ok) =>
             (deserializer' = Deserializer(generic_parsed_path_value.value, DMap)
              /\ pc' = "visit_map")]_vars
    /\ [][(pc = "visit_map_value" /\ SeedOf(deserializer.state.key) = "Struct") =>
             (parsed' = InvalidDeserializerState("Start",
                            DMapValue(deserializer.generic_parsed_path[deserializer.state.key]))
              /\ pc' = "parse_returned")]_vars

\* A record was entered in state End and refused with the state observed.
C20_Witness ==
    /\ request = "deserialize_struct"
    /\ response = InvalidDeserializerState("Start", DEnd)
    /\ deserializer.state = DEnd

(***************************************************************************)
(* C16: unsupported shapes on deserialization                              *)
(***************************************************************************)
NotSupported(shape) == ErrText("NotSupported", <<>>, shape)

\* The shapes and the requests that ask for them, with the name each is
\* refused under.
ShapeRequests ==
    { <<"deserialize_seq", "sequence">>, <<"deserialize_tuple", "tuple">>,
      <<"deserialize_option", "Option">>, <<"deserialize_enum", "enum">>,
      <<"deserialize_unit", "()">>, <<"deserialize_bytes", "bytes">>,
      <<"deserialize_byte_buf", "bytes_buf">>, <<"deserialize_bool", "bool">>,
      <<"deserialize_char", "char">> }

\* The request is refused as shape, and the Deserializer is left as it was.
RefusedAs(shape) == response' = NotSupported(shape) /\ deserializer' = deserializer

RefusesShapes ==
    \A sr \in ShapeRequests : Requested({sr[1]}) => RefusedAs(sr[2])

\* The fields of the target that are no scalars.
ShapeFields(types) == {i \in 1..Len(target) : target[i].segment_type \in types}

NonScalarFields == {i \in 1..Len(record) : record[i].value.tag \notin SegmentType}
ScalarNames == {record[i].name : i \in (1..Len(record)) \ NonScalarFields}

\* C17: when the record given to generate holds a field that is a list, an
\* optional value or a nested record, in whatever place, generate returns
\* NotSupported, and the Serializer's map never holds a key that is not the
\* name of a scalar field of the record itself.
C17_NonScalarField ==
    /\ (flow = "generate" /\ GenerateReturned /\ NonScalarFields # {})
           => generated.err = "NotSupported"
    /\ flow = "generate" => DOMAIN serializer.serialized_values \subseteq ScalarNames

(***************************************************************************)
(* C19: non-interference of concurrent calls                               *)
(***************************************************************************)
\* The results of the derived visit_map run on its own over the Field Map m
\* with the fields got so far: one for every order in which the map hands
\* out its keys.
RECURSIVE VisitAlone(_, _)
VisitAlone(m, got) ==
    IF DOMAIN m = {}
    THEN LET missing == {i \in 1..Len(target) :
                            target[i].name \notin DOMAIN got /\ target[i].segment_type # "Option"}
         IN  {IF missing = {}
              THEN Ok([i \in 1..Len(target) |->
                          FieldValue(target[i].name,
                                     IF target[i].name \in DOMAIN got
                                     THEN got[target[i].name] ELSE None)])
              ELSE ErrText("SerdeInternalError", target[Least(missing)].name, <<>>)}
    ELSE UNION {LET out == next_value_seed(Deserializer(m, DMapKey(k)), SeedOf(k))
                IN  IF out.res.ok
                    THEN VisitAlone(out.de.generic_parsed_path, insert(got, k, out.res.value))
                    ELSE {out.res} : k \in DOMAIN m}

\* The results of the parse call run on its own.
ParseAlone ==
    LET n == Min(Len(Segs), Len(schema))
        generic == MatchAll(Segs, n)
    IN  IF generic.ok THEN VisitAlone(generic.value, EmptyMap) ELSE {generic}

\* The result of the assembly loop run on its own from descriptor n on.
RECURSIVE AssembleAlone(_, _, _)
AssembleAlone(n, so_far, values) ==
    IF n > Len(schema) THEN Ok(so_far)
    ELSE LET r == AssembleSegment(so_far, schema[n], values)
         IN  IF r.ok THEN AssembleAlone(n + 1, r.value, values) ELSE r

\* The result of the generate call run on its own.
GenerateAlone ==
    LET out == serialize_value(Serializer(EmptyMap, SStart), Shape("Struct", record))
    IN  IF out.res.ok THEN AssembleAlone(1, <<>>, out.ser.serialized_values) ELSE out.res

\* C19: with a parse call and a generate call against the same Schema
\* interleaved step by step in any way, no step changes the Schema, a step
\* of one call changes none of the other call's locals (its Field Map, its
\* Deserializer or Serializer, its result), and each call returns a result
\* it returns when run on its own.
C19_NonInterference ==
    /\ [][schema' = schema]_vars
    /\ [][(pc \in {"parse_path_generic", "parse_path", "visit_map", "visit_map_value",
                    "parse_returned"} /\ pc' # suspended)
             => UNCHANGED generateVars]_vars
    /\ [][(pc \in {"generate_path", "serialize_fields", "assemble", "generate_returned"}
            /\ pc' # suspended)
             => UNCHANGED parseVars]_vars
    /\ [](ParseReturned => parsed \in ParseAlone)
    /\ [](GenerateReturned => generated = GenerateAlone)

\* Both interleaved calls have returned: the parse call a record of two
\* fields, the generate call a path of two segments.
C19_Witness ==
    /\ flow = "concurrent"
    /\ pc = "done" /\ suspended = "done"
    /\ parsed.ok /\ Len(parsed.value) = 2
    /\ generated.ok /\ Len(schema) = 2

(***************************************************************************)
(* C21: Deserializer, next field name                                      *)
(***************************************************************************)
\* The Field Map the Deserializer holds.
FieldMap == deserializer.generic_parsed_path

\* C21: a next_key_seed request made in state Map over a non-empty Field
\* Map leaves state MapKey(k) for a key k of the map and the map as it was,
\* and hands k to the caller as Some(k); over an empty map it leaves state
\* End and returns None; made in any other state it returns
\* InvalidDeserializerState(expected "Map", got the state) and changes
\* nothing.  The derived visit_map is handed its keys the same way.
C21_NextFieldName ==
    /\ [][Requested({"next_key_seed"}) =>
             IF deserializer.state.st = "Map"
             THEN IF DOMAIN FieldMap # {}
                  THEN \E k \in DOMAIN FieldMap :
                          /\ deserializer' = Deserializer(FieldMap, DMapKey(k))
                          /\ response' = Ok(<<k>>)
                  ELSE /\ deserializer' = Deserializer(FieldMap, DEnd)
                       /\ response' = Ok(<<>>)
             ELSE /\ response' = InvalidDeserializerState("Map", deserializer.state)
                  /\ deserializer' = deserializer]_vars
    /\ [][(Requested({"deserialize_identifier"}) /\ deserializer.state.st = "MapKey") =>
             (response' = Ok(deserializer.state.key) /\ deserializer' = deserializer)]_vars
    /\ [][pc = "visit_map" =>
             /\ deserializer.state = DMap
             /\ deserializer'.generic_parsed_path = FieldMap
             /\ IF DOMAIN FieldMap # {}
                THEN /\ deserializer'.state.st = "MapKey"
                     /\ deserializer'.state.key \in DOMAIN FieldMap
                     /\ pc' = "visit_map_value"
                ELSE deserializer'.state = DEnd /\ pc' = "parse_returned"]_vars

\* With x consumed, the key y was handed out next and is still in the map.
C21_Witness ==
    /\ request = "next_key_seed"
    /\ response = Ok(<<NameY>>)
    /\ deserializer.state = DMapKey(NameY)
    /\ DOMAIN FieldMap = {NameY}

(***************************************************************************)
(* C22: Deserializer, field value consumed once                            *)
(***************************************************************************)
\* The step is a value request: of the consumer of flow "requests" or of
\* the derived visit_map.
ValueRequested == Requested({"next_value_seed"}) \/ pc = "visit_map_value"

\* The step takes the entry of key k out of the Field Map and leaves the
\* others.
Removes(k) == k \in DOMAIN FieldMap /\ deserializer'.generic_parsed_path = remove(FieldMap, k)

\* C22: a next_value_seed request made in state MapKey(name) takes exactly
\* the entry of name out of the Field Map and serves the request of its seed
\* in state MapValue(the value taken out); made in any other state it
\* returns InvalidDeserializerState and changes nothing.  No step of a run
\* adds an entry to the Field Map or changes one, a step that takes entries
\* out is a value request and takes out one, and state MapValue(v) is only
\* entered by the value request that takes v out.
C22_ValueConsumedOnce ==
    /\ [][Requested({"next_value_seed"}) =>
             IF deserializer.state.st = "MapKey"
             THEN /\ Removes(deserializer.state.key)
                  /\ \E T \in SegmentType \cup {"Vec", "Option", "Struct", "IgnoredAny"} :
                         DeOut(deserializer', response') =
                             seed_deserialize(
                                 Deserializer(remove(FieldMap, deserializer.state.key),
                                              DMapValue(FieldMap[deserializer.state.key])), T)
             ELSE /\ response'.err = "InvalidDeserializerState"
                  /\ response'.got = deserializer.state
                  /\ deserializer' = deserializer]_vars
    /\ [][pc # "parse_path" =>
             \/ deserializer'.generic_parsed_path = FieldMap
             \/ /\ ValueRequested
                /\ deserializer.state.st = "MapKey"
                /\ Removes(deserializer.state.key)]_vars
    /\ [][(deserializer'.state.st = "MapValue" /\ deserializer'.state # deserializer.state) =>
             /\ ValueRequested
             /\ deserializer.state.st = "MapKey"
             /\ Removes(deserializer.state.key)
             /\ deserializer'.state.value = FieldMap[deserializer.state.key]]_vars

\* The value of x was asked for with the seed of a list: the entry of x is
\* out of the map, y is left, and the state holds the value taken out.
C22_Witness ==
    /\ request = "next_value_seed"
    /\ response = ErrText("NotSupported", <<>>, "sequence")
    /\ deserializer.state = DMapValue(SegmentValue("U8", IntDatum(FALSE, <<"7">>)))
    /\ DOMAIN FieldMap = {NameY}

(***************************************************************************)
(* C23: Deserializer, matching scalar request                              *)
(***************************************************************************)
\* The step is the request of a consumer for a scalar of type T, made in
\* state MapValue(v).
ScalarRequested(T) ==
    /\ Requested({ScalarRequest[T]})
    /\ deserializer.state.st = "MapValue"

\* C23: for each of the 13 scalar types T, a request for a scalar of type T
\* made in state MapValue(v) with v of tag T hands back v and moves the state
\* to Map.
C23_MatchingScalar ==
    [][\A T \in SegmentType :
          (ScalarRequested(T) /\ deserializer.state.value.tag = T) =>
              /\ response' = Ok(deserializer.state.value)
              /\ deserializer'.state = DMap]_vars

(***************************************************************************)
(* C24: Deserializer, mismatching scalar request                           *)
(***************************************************************************)
\* C24: TypeName[T] being the name of the requested type, a request for a
\* scalar of type T made in state MapValue(v) with v
\* of another tag fails with ExpectedType naming T and carrying v, and the
\* value is not handed over.
C24_MismatchingScalar ==
    [][\A T \in SegmentType :
          (ScalarRequested(T) /\ deserializer.state.value.tag # T) =>
              response' = ErrText("ExpectedType", deserializer.state.value, TypeName[T])]_vars

(***************************************************************************)
(* C25: Deserializer, End is terminal                                      *)
(***************************************************************************)
\* C25: every request a consumer makes in state End (next_key_seed,
\* next_value_seed, deserialize_identifier, a scalar, deserialize_struct or
\* deserialize_map, any other shape) returns an error, and no step taken in
\* state End changes the state or the Field Map.
C25_EndTerminal ==
    /\ [][(pc = "requests" /\ deserializer.state.st = "End") =>
             /\ ~response'.ok
             /\ response'.err \in {"InvalidDeserializerState", "NotSupported"}
             /\ response'.err = "InvalidDeserializerState" => response'.got = DEnd]_vars
    /\ [][deserializer.state.st = "End" => deserializer' = deserializer]_vars

\* A consumer asked to enter a record in state End and was refused.
C25_Witness ==
    /\ request = "deserialize_struct"
    /\ response = InvalidDeserializerState("Start", DEnd)
    /\ deserializer.state = DEnd

(***************************************************************************)
(* C26: Impossible is unreachable                                          *)
(***************************************************************************)
\* C26: in every state a run reaches, under the requests of the derived
\* parse and under those of a consumer that asks in any order, a
\* Deserializer in state MapKey(k) has k among the keys of its Field Map,
\* and neither a request nor a parse has returned Impossible.
C26_ImpossibleUnreachable ==
    /\ deserializer.state.st = "MapKey" => deserializer.state.key \in DOMAIN FieldMap
    /\ response.err # "Impossible"
    /\ parsed.err # "Impossible"

\* In state MapKey(y) the consumer asked for the next field name, which is
\* not legal there, and the state and the entry of y stayed.
C26_Witness ==
    /\ request = "next_key_seed"
    /\ response = InvalidDeserializerState("Map", DMapKey(NameY))
    /\ deserializer.state = DMapKey(NameY)
    /\ NameY \in DOMAIN FieldMap

(***************************************************************************)
(* C27: Serializer, entering a record                                      *)
(***************************************************************************)
\* The step is a request of one of the names made of the Serializer in flow
\* "serialize".
Supplied(names) == pc = "serialize" /\ request' \in names

\* C27: serialize_struct requested in state Start succeeds and leaves
\* state StructKey; requested in any other state it returns an error and
\* does not leave state StructKey in place of the state it was made in.
C27_EnterRecordFromStart ==
    [][Supplied({"serialize_struct"}) =>
          IF serializer.state = SStart
          THEN response'.ok /\ serializer'.state = SStructKey
          ELSE ~response'.ok /\ serializer'.state = serializer.state]_vars

(***************************************************************************)
(* C28: Serializer, field cycle                                            *)
(***************************************************************************)
ScalarSupplied == Supplied({SerializeRequest[T] : T \in SegmentType})
OutputMap == serializer.serialized_values

\* The record given to generate is flat: every field is a scalar.
FlatRecord == \A i \in 1..Len(record) : record[i].value.tag \in SegmentType

\* C28: a field supplied in state StructKey moves the Serializer to
\* StructValue(name), and the scalar supplied there inserts name -> its
\* rendering into the output map and moves back to StructKey; a field
\* supplied in another state than StructKey and a scalar supplied in
\* another state than StructValue return InvalidSerializerState with the
\* state they were supplied in and change neither map nor state.  The
\* derived Serialize of a record does both halves for each scalar field,
\* and once a flat record is ended the output map holds its field names
\* and no other, each with the rendering of its value.
C28_FieldCycle ==
    /\ [][Supplied({"serialize_field"}) =>
             IF serializer.state = SStructKey
             THEN /\ serializer'.state.st = "StructValue"
                  /\ serializer'.state.key \in SerializeNames
                  /\ serializer'.serialized_values = OutputMap
             ELSE /\ response' = InvalidSerializerState("StructKey", serializer.state)
                  /\ serializer' = serializer]_vars
    /\ [][ScalarSupplied =>
             IF serializer.state.st = "StructValue"
             THEN /\ response' = Ok(<<>>)
                  /\ serializer'.state = SStructKey
                  /\ \E v \in SerializeValues :
                         /\ request' = SerializeRequest[v.tag]
                         /\ serializer'.serialized_values =
                                insert(OutputMap, serializer.state.key, Render(v))
             ELSE /\ response' = InvalidSerializerState("StructValue", serializer.state)
                  /\ serializer' = serializer]_vars
    /\ [][(/\ pc = "serialize_fields"
           /\ fi < Len(record)
           /\ record[fi + 1].value.tag \in SegmentType
           /\ serializer.state = SStructKey) =>
             serializer' = Serializer(insert(OutputMap, record[fi + 1].name,
                                             Render(record[fi + 1].value)),
                                      SStructKey)]_vars
    /\ []((flow = "generate" /\ FlatRecord /\ serializer.state = SEnd) =>
             /\ DOMAIN OutputMap = {record[i].name : i \in 1..Len(record)}
             /\ \A i \in 1..Len(record) : OutputMap[record[i].name] = Render(record[i].value))

\* A record supplied x with 7 and then y with "a": both are in the output
\* map and the Serializer is back in StructKey.
C28_Witness ==
    /\ request = "serialize_str"
    /\ response = Ok(<<>>)
    /\ held = <<"SerializeStruct">>
    /\ serializer = Serializer(insert(insert(EmptyMap, NameX, <<"7">>), NameY, <<"a">>),
                               SStructKey)

(***************************************************************************)
(* C29: Serializer, End is terminal                                        *)
(***************************************************************************)
\* C29: end, requested by a Serialize implementation of any kind or by the
\* derived one after the last field, leaves the Serializer in state End
\* with the output map as it was; a field supplied in state End returns
\* InvalidSerializerState(expected StructKey, got End); and no step taken
\* in state End changes the state or the output map.
C29_EndTerminal ==
    /\ [][Supplied({"end"}) =>
             /\ response' = Ok(<<>>)
             /\ serializer' = Serializer(OutputMap, SEnd)]_vars
    /\ [][(pc = "serialize_fields" /\ fi = Len(record)) =>
             serializer' = Serializer(OutputMap, SEnd)]_vars
    /\ [][(Supplied({"serialize_field"}) /\ serializer.state = SEnd) =>
             response' = InvalidSerializerState("StructKey", SEnd)]_vars
    /\ [][serializer.state = SEnd => serializer' = serializer]_vars

\* The record of field x ended and the record around it supplied a field
\* after that.
C29_Witness ==
    /\ request = "serialize_field"
    /\ response = InvalidSerializerState("StructKey", SEnd)
    /\ held = <<"SerializeStruct">>
    /\ serializer = Serializer(insert(EmptyMap, NameX, <<"7">>), SEnd)

(***************************************************************************)
(* C30: independence from field-consumption order                          *)
(***************************************************************************)
\* The Field Map parse_path_generic returned, and the results of the
\* derived visit_map over it, one for every order of picking the keys.
ReturnedMap == generic_parsed_path_value.value
AnyOrder == VisitAlone(ReturnedMap, EmptyMap)

\* C30: for every Field Map parse_path_generic returns and every target
\* record, if the derived visit_map succeeds under one order of picking
\* the keys it returns the same record under every order; the parse run,
\* whichever keys it is given, returns one of these results; no key is
\* handed out that a field was already collected for; and a parse that
\* succeeds has collected a field for every entry of the Field Map and
\* left the map of the Deserializer empty.
C30_OrderIndependence ==
    /\ []((flow = "parse" /\ generic_parsed_path_value.ok) =>
             \A a \in AnyOrder : a.ok => AnyOrder = {a})
    /\ []((flow = "parse" /\ generic_parsed_path_value.ok /\ ParseReturned) =>
             /\ parsed \in AnyOrder
             /\ parsed.ok => /\ DOMAIN fields = DOMAIN ReturnedMap
                             /\ DOMAIN FieldMap = {})
    /\ [][pc = "visit_map_value" => deserializer.state.key \notin DOMAIN fields]_vars

\* A parse of two value segments succeeded with the fields collected in
\* either order.
C30_Witness ==
    /\ flow = "parse"
    /\ parsed.ok
    /\ DOMAIN ReturnedMap = {NameX, NameY}
    /\ DOMAIN fields = {NameX, NameY}
    /\ Cardinality(AnyOrder) = 1

(***************************************************************************)
(* C31: termination of the deserialization loop                            *)
(***************************************************************************)
\* parse_path from the return of parse_path_generic on, for every Field
\* Map it returns over the Schemas and paths of flow "parse": parse_path
\* runs on the caller's thread and no step of it waits for anything, so a
\* step that can be taken is taken.
LoopInit ==
    /\ flow = "parse"
    /\ schema \in ShapeSchemas
    /\ path \in ShapePaths(schema)
    /\ target \in ShapeTargets
    /\ record = <<>>
    /\ pc = "parse_path"
    /\ pos = ZipLen(path, schema)
    /\ generic_parsed_path_value = MatchAll(Segs, ZipLen(path, schema))
    /\ generic_parsed_path_value.ok
    /\ path_values = generic_parsed_path_value.value
    /\ deserializer = Deserializer(EmptyMap, DStart)
    /\ fields = EmptyMap
    /\ parsed = Pending
    /\ serializer = Serializer(EmptyMap, SStart)
    /\ fi = 0
    /\ generated_path = <<>>
    /\ gi = 0
    /\ generated = Pending
    /\ NoDsl
    /\ NoRequest
    /\ NoSecondCall

LoopNext ==
    \/ parse_path
    \/ visit_map_next_key
    \/ visit_map_next_value
    \/ after_parse

LoopSpec == LoopInit /\ [][LoopNext]_vars /\ WF_vars(LoopNext)

\* The entries left in the Field Map of the Deserializer.
Left == Cardinality(DOMAIN FieldMap)

\* The loop is over: the Deserializer is in End or parse returned an error.
LoopOver == deserializer.state = DEnd \/ (ParseReturned /\ ~parsed.ok)

\* C31: once the derived visit_map has entered the record (deserialize_map
\* accepted, state Map) it reaches state End or parse returns an error.
\* Each name it is offered is the key of an entry still in the map that no
\* field was collected for, each value request leaves one entry fewer, no
\* step adds an entry, and the rounds made and the entries left never
\* exceed the entries of the Field Map parse_path_generic returned.
C31_LoopTerminates ==
    /\ (pc = "visit_map" /\ deserializer.state = DMap) ~> LoopOver
    /\ [][(pc = "visit_map" /\ pc' = "visit_map_value") =>
             /\ deserializer'.state.key \in DOMAIN FieldMap
             /\ deserializer'.state.key \notin DOMAIN fields
             /\ deserializer'.generic_parsed_path = FieldMap]_vars
    /\ [][pc = "visit_map_value" =>
             Cardinality(DOMAIN deserializer'.generic_parsed_path) = Left - 1]_vars
    /\ [](pc \in {"visit_map", "visit_map_value"} =>
             /\ DOMAIN FieldMap \subseteq DOMAIN ReturnedMap
             /\ Cardinality(DOMAIN fields) + Left = Cardinality(DOMAIN ReturnedMap))

\* Two rounds over a Field Map of two entries, then the request for a
\* third name found the map empty and left the Deserializer in End.
C31_Witness ==
    /\ deserializer.state = DEnd
    /\ Cardinality(DOMAIN ReturnedMap) = 2
    /\ DOMAIN fields = DOMAIN ReturnedMap
    /\ Left = 0

(***************************************************************************)
(* C32: duplicate field names                                              *)
(***************************************************************************)
\* The Schema is two Value descriptors of one name and the path has a
\* segment for each.
Duplicate ==
    /\ Len(schema) = 2
    /\ schema[1].kind = "Value"
    /\ schema[2].kind = "Value"
    /\ schema[1].name = schema[2].name
    /\ Len(Segs) >= 2

\* C32: over a Schema of two Value descriptors of one name and a path with
\* a segment for each, parse_path_generic returns no error but that of a
\* segment which does not parse as the type of its descriptor; when both
\* parse, it returns a Field Map whose one entry is the name with the value
\* parsed from the second segment under the type of the second descriptor.
C32_DuplicateNames ==
    (Duplicate /\ GenericReturned) =>
        LET earlier == ParseSegment(Segs[1], schema[1].segment_type)
            later   == ParseSegment(Segs[2], schema[2].segment_type)
        IN  IF ~earlier.ok THEN generic_parsed_path_value = earlier
            ELSE IF ~later.ok THEN generic_parsed_path_value = later
            ELSE /\ generic_parsed_path_value.ok
                 /\ DOMAIN ReturnedMap = {schema[2].name}
                 /\ ReturnedMap[schema[2].name] = later.value
                 /\ ReturnedMap[schema[2].name].tag = schema[2].segment_type

\* "/1/a" against x as a u8 and then x as a String: the map holds x as the
\* String "a".
C32_Witness ==
    /\ Duplicate
    /\ schema[1].segment_type = "U8"
    /\ schema[2].segment_type = "String"
    /\ generic_parsed_path_value =
           Ok(insert(EmptyMap, NameX, SegmentValue("String", TextDatum(<<"a">>))))

(***************************************************************************)
(* C33: unknown field in the Field Map                                     *)
(***************************************************************************)
\* The names the target record declares.
Declared == {target[i].name : i \in 1..Len(target)}

\* C33: when the derived visit_map asks for the value of a key that is no
\* field of the target record, which it asks to have skipped, parse returns
\* NotSupported("deserialize_ignored_any"); and a parse that succeeds had a
\* Field Map whose names are all fields of the target record.
C33_UnknownField ==
    /\ [][(pc = "visit_map_value" /\ deserializer.state.key \notin Declared) =>
             /\ parsed' = ErrText("NotSupported", <<>>, "deserialize_ignored_any")
             /\ pc' = "parse_returned"]_vars
    /\ []((flow = "parse" /\ parsed.ok) => DOMAIN ReturnedMap \subseteq Declared)

\* The Field Map held x and y, the target declares x alone, and parse
\* returned the refusal to skip y.
C33_Witness ==
    /\ flow = "parse"
    /\ generic_parsed_path_value.ok
    /\ DOMAIN ReturnedMap = {NameX, NameY}
    /\ Declared = {NameX}
    /\ parsed = ErrText("NotSupported", <<>>, "deserialize_ignored_any")

(***************************************************************************)
(* C34: rejected requests change nothing                                   *)
(***************************************************************************)
\* The requests for a scalar, to enter a record, and for a shape the
\* Deserializer does not take.
FramedRequests ==
    {ScalarRequest[T] : T \in SegmentType}
    \cup {"deserialize_struct", "deserialize_map", "deserialize_ignored_any"}
    \cup DOMAIN DeNotSupported

\* C34: a request for a scalar, to enter a record or for an unsupported
\* shape that returns InvalidDeserializerState, ExpectedType or NotSupported
\* leaves the state and the Field Map of the Deserializer as they were.
C34_RejectedChangesNothing ==
    [][(Requested(FramedRequests)
        /\ response'.err \in {"InvalidDeserializerState", "ExpectedType", "NotSupported"}) =>
          deserializer' = deserializer]_vars

\* A u64 was requested of a stored u128: ExpectedType, and the value is
\* still held in MapValue with the entry of y still in the map.
C34_Witness ==
    /\ request = "deserialize_u64"
    /\ response.err = "ExpectedType"
    /\ deserializer.state.st = "MapValue"
    /\ deserializer.state.value.tag = "U128"
    /\ response.got = deserializer.state.value
    /\ DOMAIN FieldMap = {NameY}

(***************************************************************************)
(* C35: the first path token is dropped unexamined                         *)
(***************************************************************************)
\* The path from its first "/" on: the path without the text before it.
FromFirstSlash == Join(<<>>, Tail(Split(path)))

\* What parse_path_generic returns for the path from its first "/" on.
MatchedFromFirstSlash ==
    MatchAll(PathSegments(FromFirstSlash), ZipLen(FromFirstSlash, schema))

\* C35: whatever text the path has before its first "/", none or some,
\* parse_path_generic returns for it what it returns for the path from
\* that "/" on, and parse returns a result it returns for that path: the
\* matcher's error, or a result of the derived visit_map over that Field
\* Map.
C35_FirstTokenDropped ==
    /\ GenericReturned => generic_parsed_path_value = MatchedFromFirstSlash
    /\ ParseReturned =>
           IF MatchedFromFirstSlash.ok
           THEN parsed \in VisitAlone(MatchedFromFirstSlash.value, EmptyMap)
           ELSE parsed = MatchedFromFirstSlash

\* "z/1/a" parsed as "/1/a" does: z was matched against no descriptor.
C35_Witness ==
    /\ FirstToken = <<"z">>
    /\ Len(Segs) = 2
    /\ Len(schema) = 2
    /\ schema[1].kind = "Value"
    /\ generic_parsed_path_value.ok
    /\ parsed.ok
=============================================================================
